---------------------------- MODULE Spec2Model ----------------------------
(***************************************************************************)
(* A model of the zta-testbed multi-agent system: the per-agent tool       *)
(* catalogs, the MCP protocol client of the specialist agents (call_tool   *)
(* and _init_mcp_session), the specialists' deterministic dispatch         *)
(* (process_request) and the routing supervisors (process_query,           *)
(* route_and_execute).                                                     *)
(*                                                                         *)
(* The agents are asyncio programs: the code between two awaits runs as    *)
(* one atomic step, and every await of an HTTP exchange is a point where   *)
(* other tasks of the same agent may run.  Each action below is one such   *)
(* atomic stretch of a handler.                                            *)
(***************************************************************************)
EXTENDS Integers, Sequences, FiniteSets, TLC

\* ------------------------------------------------------------------
\* Bounds of the model
\* ------------------------------------------------------------------

\* Number of session tokens the tool host hands out in one behaviour.
MaxSessions == 2

\* Number of requests one agent serves concurrently.
NumTasks == 2

\* Largest max_iterations a routing request is started with.
MaxIter == 4

\* Seats of the largest flight, passengers of one booking, and rows of the
\* bookings table.
MaxSeats == 3
MaxPassengers == 2
MaxBookings == 3

\* Days a rental can start or end on, and rows of the rentals table.
MaxDay == 3
MaxRentals == 3

\* ------------------------------------------------------------------
\* Strings, as the Python code handles them
\* ------------------------------------------------------------------

\* sub in s
Contains(s, sub) ==
    \E i \in 1..(Len(s) - Len(sub) + 1) : SubSeq(s, i, i + Len(sub) - 1) = sub

\* s.startswith(pre)
StartsWith(s, pre) == Len(s) >= Len(pre) /\ SubSeq(s, 1, Len(pre)) = pre

\* s.split(sep) for a one-character separator
RECURSIVE Split(_, _)
Split(s, sep) ==
    IF \E i \in 1..Len(s) : SubSeq(s, i, i) = sep
    THEN LET i == CHOOSE j \in 1..Len(s) :
                      /\ SubSeq(s, j, j) = sep
                      /\ \A k \in 1..(j - 1) : SubSeq(s, k, k) # sep
         IN  <<SubSeq(s, 1, i - 1)>> \o Split(SubSeq(s, i + 1, Len(s)), sep)
    ELSE <<s>>

IsSpace(c) == c \in {" ", "\t", "\n", "\r"}

\* s.strip()
RECURSIVE Strip(_)
Strip(s) ==
    IF Len(s) = 0 THEN s
    ELSE IF IsSpace(SubSeq(s, 1, 1)) THEN Strip(SubSeq(s, 2, Len(s)))
    ELSE IF IsSpace(SubSeq(s, Len(s), Len(s))) THEN Strip(SubSeq(s, 1, Len(s) - 1))
    ELSE s

UpperCase == "ABCDEFGHIJKLMNOPQRSTUVWXYZ"
LowerCase == "abcdefghijklmnopqrstuvwxyz"

LowerChar(c) ==
    IF \E i \in 1..Len(UpperCase) : SubSeq(UpperCase, i, i) = c
    THEN LET i == CHOOSE j \in 1..Len(UpperCase) : SubSeq(UpperCase, j, j) = c
         IN  SubSeq(LowerCase, i, i)
    ELSE c

\* s.lower()
RECURSIVE Lower(_)
Lower(s) ==
    IF Len(s) = 0 THEN s
    ELSE LowerChar(SubSeq(s, 1, 1)) \o Lower(SubSeq(s, 2, Len(s)))

Range(f) == {f[i] : i \in DOMAIN f}

\* ------------------------------------------------------------------
\* Tool catalogs
\* ------------------------------------------------------------------

AIRLINE_TOOLS ==
    <<"list_airports", "search_flights", "get_flight_details",
      "book_flight", "get_booking", "cancel_booking">>

HOTEL_TOOLS_SharedBooking ==
    <<"list_cities", "search_hotels", "get_hotel_details",
      "book_hotel", "get_booking", "cancel_reservation">>

HOTEL_TOOLS ==
    <<"list_cities", "search_hotels", "get_hotel_details",
      "book_hotel", "get_reservation", "cancel_reservation">>

CAR_RENTAL_TOOLS ==
    <<"list_locations", "get_vehicle_categories", "search_vehicles",
      "get_vehicle_details", "book_vehicle", "get_rental",
      "modify_rental", "cancel_rental">>

Agents == {"airline", "hotel", "car_rental"}

\* self.tools of the agent of a domain, as set at construction
AgentTools(d) ==
    CASE d = "airline"    -> AIRLINE_TOOLS
      [] d = "hotel"      -> HOTEL_TOOLS
      [] d = "car_rental" -> CAR_RENTAL_TOOLS

\* The reference-data listing tool each catalog starts with.
DefaultTool(d) == Head(AgentTools(d))

\* [t["name"] for t in agent.tools]
ToolNames(d) == Range(AgentTools(d))


\* ------------------------------------------------------------------
\* Decoding a tools/call response body
\* ------------------------------------------------------------------

\* What call_tool returns: a result payload (kind "value", text the payload
\* as JSON text) or the dict {"error": text} (kind "error").
Value(t) == [kind |-> "value", text |-> t]
Error(t) == [kind |-> "error", text |-> t]

NotJson == [ok |-> FALSE, has_result |-> FALSE, result |-> "",
            has_error |-> FALSE, has_message |-> FALSE, message |-> "",
            error_str |-> ""]

JsonObject(hasResult, result, hasError, hasMessage, message, errorStr) ==
    [ok |-> TRUE, has_result |-> hasResult, result |-> result,
     has_error |-> hasError, has_message |-> hasMessage, message |-> message,
     error_str |-> errorStr]

\* json.loads on the envelopes the tool host sends; any other text raises
\* JSONDecodeError (ok = FALSE).
JsonLoads(s) ==
    CASE s = "{\"result\": 42}" -> JsonObject(TRUE, "42", FALSE, FALSE, "", "")
      [] s = "{\"result\": 1}"  -> JsonObject(TRUE, "1", FALSE, FALSE, "", "")
      [] s = "{\"result\": 2}"  -> JsonObject(TRUE, "2", FALSE, FALSE, "", "")
      [] s = "{\"error\": {\"message\": \"flight not found\"}}" ->
             JsonObject(FALSE, "", TRUE, TRUE, "flight not found",
                        "{'message': 'flight not found'}")
      [] s = "{\"error\": {\"code\": -32602}}" ->
             JsonObject(FALSE, "", TRUE, FALSE, "", "{'code': -32602}")
      [] s = "{\"jsonrpc\": \"2.0\"}" ->
             JsonObject(FALSE, "", FALSE, FALSE, "", "")
      [] OTHER -> NotJson

\* The SSE branch's handling of one decoded data: payload.
SseEnvelope(json_data) ==
    LET result == JsonLoads(json_data) IN
    IF ~result.ok THEN Error("Invalid JSON response: " \o json_data)
    ELSE IF result.has_result THEN Value(result.result)
    ELSE IF result.has_error
         THEN Error(IF result.has_message THEN result.message
                    ELSE result.error_str)
    ELSE Value(json_data)

\* for line in text.split("\n"): the first data: line with a non-empty
\* payload returns; a body without one falls out of the loop.
RECURSIVE SseScan(_)
SseScan(lines) ==
    IF lines = <<>> THEN Error("No data in SSE response")
    ELSE LET line == Head(lines)
             json_data == Strip(SubSeq(line, 6, Len(line)))
         IN  IF StartsWith(line, "data:") /\ json_data # ""
             THEN SseEnvelope(json_data)
             ELSE SseScan(Tail(lines))

\* The plain branch: response.json() and result.get("result", result); a
\* body that is not JSON raises inside the try and is returned as an error.
PlainEnvelope(text) ==
    LET result == JsonLoads(text) IN
    IF ~result.ok THEN Error("Expecting value: line 1 column 1 (char 0)")
    ELSE IF result.has_result THEN Value(result.result)
    ELSE Value(text)

\* A decoder that takes every body for plain JSON.
DecodeBody_PlainOnly(text) == PlainEnvelope(text)

\* The status-200 branch of call_tool.
DecodeBody(text) ==
    IF StartsWith(text, "event:") THEN SseScan(Split(text, "\n"))
    ELSE PlainEnvelope(text)

\* Response bodies the tool host answers a tools/call with.
Bodies ==
    {"event: message\ndata: {\"result\": 42}\n\n",
     "event: message\n\n",
     "event: message\ndata: {\"error\": {\"message\": \"flight not found\"}}\n\n",
     "{\"result\": 42}"}


\* Response bodies for the decoder alone: those above, an error envelope as
\* plain JSON, an event stream with two data: lines, an envelope with neither
\* result nor error in both forms, an error without a message, and a
\* data: line that is not JSON.
DecodeBodies ==
    Bodies \cup
    {"{\"error\": {\"message\": \"flight not found\"}}",
     "event: message\ndata: {\"result\": 1}\n\nevent: message\ndata: {\"result\": 2}\n\n",
     "event: message\ndata: {\"jsonrpc\": \"2.0\"}\n\n",
     "{\"jsonrpc\": \"2.0\"}",
     "event: message\ndata: {\"error\": {\"code\": -32602}}\n\n",
     "event: message\ndata: <html>\n\n"}

NoBody == ""

\* ------------------------------------------------------------------
\* State
\* ------------------------------------------------------------------

VARIABLES
    \* a specialist agent and the tool host it talks to
    agent,           \* the domain of the specialist agent under study
    llm,             \* self.llm is set (an API key was configured)
    mcp_session_id,  \* self.mcp_session_id: NoSession or a token
    hostLive,        \* the tool host's live sessions
    hostIssued,      \* number of sessions the tool host has created
    \* one call_tool invocation per task
    pc,              \* where the invocation stands
    tool,            \* tool_name
    active,          \* a session id was stored when the invocation began
    sent,            \* the mcp-session-id header of the tools/call in flight
    nInit,           \* initialize requests the invocation has sent
    nCall,           \* tools/call requests the invocation has sent
    outcomes,        \* outcomes of the tools/call exchanges, in order
    ret,             \* the value call_tool returned
    \* one process_request invocation
    request,         \* the AgentRequest being processed, or NoRequest
    rpc,             \* where process_request stands
    response,        \* the AgentResponse returned, or NoResponse
    \* one routing request of a supervisor
    rt_impl,         \* which supervisor serves it
    rt_pc,           \* where the handler stands
    query,           \* request.query / user_request
    max_iterations,  \* request.max_iterations / max_iterations
    iteration,       \* the loop variable of process_query
    conversation_history, \* the turns gathered so far
    rt_agent,        \* the specialist being called
    rt_calls,        \* specialist calls made for the request
    rt_complete,     \* a completion condition has been met
    rt_response,     \* what the handler returned, or NoRouterResponse
    \* the decoder under study
    reply_body,      \* response.text of the last status-200 answer, or NoBody
    \* one request of a single-call router
    rt_healthy,      \* agent.healthy of the agent the request is routed to
    rt_context,      \* what get_user_context returned for the request
    rt_result,       \* the dict call_agent returned to chat, or NoResult
    rt_appends,      \* add_itinerary_item calls chat made for the request
    classified,      \* the latest keyword classifications of one input
    \* one run of a SecureLLMAgent, and the trust scorer the agents share
    demo_pc,         \* where run stands
    demo_agent,      \* self.agent_id
    demo_tool_calls, \* response.tool_calls, as tool names
    tool_results,    \* what _execute_tool returned for each of them
    demo_executed,   \* the tools t.invoke was called on, in order
    call_counts,     \* MockTrustScorer.call_counts
    host_pc,         \* where a tool of a tool host is: idle, requesting, returned, raised
    host_tool,       \* the tool being run
    host_response,   \* the backend's answer to the tool's request
    host_text,       \* the text the tool returned
    backend_requests, \* requests sent to the backend for this call
    bookings,        \* the rows of the airline backend's bookings table
    air_last,        \* the airline backend's last answer
    air_refused,     \* its last 409 answer to a create-booking request
    rentals,         \* the rows of the car-rental backend's rentals table
    car_last         \* the car-rental backend's last answer

clientVars == <<agent, llm, mcp_session_id, hostLive, hostIssued, pc, tool,
                active, sent, nInit, nCall, outcomes, ret>>

requestVars == <<request, rpc, response>>

routerVars == <<rt_impl, rt_pc, query, max_iterations, iteration,
                conversation_history, rt_agent, rt_calls, rt_complete,
                rt_response>>

decodeVars == <<reply_body>>

frontVars == <<rt_healthy, rt_context, rt_result, rt_appends, classified>>

demoVars == <<demo_pc, demo_agent, demo_tool_calls, tool_results, demo_executed,
              call_counts>>

hostVars == <<host_pc, host_tool, host_response, host_text, backend_requests>>

airVars == <<bookings, air_last, air_refused>>

carVars == <<rentals, car_last>>

backendVars == <<airVars, carVars>>

\* The variables of the programs that stand beside the agents and routers.
sideVars == <<demoVars, hostVars, backendVars>>

Tasks == 1..NumTasks

\* self.mcp_session_id = None
NoSession == 0

NoTool == ""
NoReturn == [kind |-> "none", text |-> ""]

\* Tool names a caller passes to call_tool: one of each domain's catalog
\* and a name no catalog holds.
ToolInputs == {"list_airports", "book_hotel", "cancel_rental", "drop_database"}

\* The agent object after __init__, the tool host with no session yet.
InitClient ==
    /\ mcp_session_id = NoSession
    /\ hostLive = {}
    /\ hostIssued = 0
    /\ pc = [p \in Tasks |-> "idle"]
    /\ tool = [p \in Tasks |-> NoTool]
    /\ active = [p \in Tasks |-> FALSE]
    /\ sent = [p \in Tasks |-> NoSession]
    /\ nInit = [p \in Tasks |-> 0]
    /\ nCall = [p \in Tasks |-> 0]
    /\ outcomes = [p \in Tasks |-> <<>>]
    /\ ret = [p \in Tasks |-> NoReturn]

\* ------------------------------------------------------------------
\* The protocol client: call_tool and _init_mcp_session
\* ------------------------------------------------------------------

\* await self.mcp_client.post(... "method": "tools/call" ...): the headers
\* carry mcp-session-id only if sid is set.
PostToolsCall(p, sid) ==
    /\ pc' = [pc EXCEPT ![p] = "call_wait"]
    /\ sent' = [sent EXCEPT ![p] = sid]
    /\ nCall' = [nCall EXCEPT ![p] = @ + 1]

\* A client that gives up on initialization: with no session it posts the
\* tools/call at once.
CallToolEnter_NoInit(p, tool_name) ==
    /\ pc[p] = "idle"
    /\ tool' = [tool EXCEPT ![p] = tool_name]
    /\ active' = [active EXCEPT ![p] = (mcp_session_id # NoSession)]
    /\ PostToolsCall(p, mcp_session_id)
    /\ UNCHANGED <<agent, llm, mcp_session_id, hostLive, hostIssued, nInit, outcomes, ret>>

\* Entry of call_tool up to its first await: with no session the initialize
\* request is posted, otherwise the tools/call request.
CallToolEnter(p, tool_name) ==
    /\ pc[p] = "idle"
    /\ tool' = [tool EXCEPT ![p] = tool_name]
    /\ active' = [active EXCEPT ![p] = (mcp_session_id # NoSession)]
    /\ IF mcp_session_id = NoSession
       THEN /\ pc' = [pc EXCEPT ![p] = "init_wait"]
            /\ nInit' = [nInit EXCEPT ![p] = @ + 1]
            /\ UNCHANGED <<sent, nCall>>
       ELSE /\ PostToolsCall(p, mcp_session_id)
            /\ UNCHANGED nInit
    /\ UNCHANGED <<agent, llm, mcp_session_id, hostLive, hostIssued, outcomes, ret>>

\* The tool host answers initialize with a new session in the
\* mcp-session-id header; _init_mcp_session stores it and call_tool goes on
\* to post tools/call with it.
InitReplySession(p) ==
    /\ pc[p] = "init_wait"
    /\ hostIssued < MaxSessions
    /\ hostIssued' = hostIssued + 1
    /\ hostLive' = hostLive \cup {hostIssued + 1}
    /\ mcp_session_id' = hostIssued + 1
    /\ PostToolsCall(p, hostIssued + 1)
    /\ UNCHANGED <<agent, llm, tool, active, nInit, outcomes, ret>>

\* The answer to initialize carries no mcp-session-id header:
\* response.headers.get returns None, which is stored.
InitReplyNoHeader(p) ==
    /\ pc[p] = "init_wait"
    /\ mcp_session_id' = NoSession
    /\ PostToolsCall(p, NoSession)
    /\ UNCHANGED <<agent, llm, hostLive, hostIssued, tool, active, nInit, outcomes, ret>>

\* The initialize exchange raises (connection refused, timeout): the except
\* clause logs and returns, self.mcp_session_id keeps its value.
InitReplyException(p) ==
    /\ pc[p] = "init_wait"
    /\ PostToolsCall(p, mcp_session_id)
    /\ UNCHANGED <<agent, llm, mcp_session_id, hostLive, hostIssued, tool, active,
                   nInit, outcomes, ret>>

\* call_tool returns value r after an exchange that ended with outcome st;
\* its locals (the headers) are gone.
CallToolReturn(p, st, r) ==
    /\ pc' = [pc EXCEPT ![p] = "done"]
    /\ outcomes' = [outcomes EXCEPT ![p] = Append(@, st)]
    /\ ret' = [ret EXCEPT ![p] = r]
    /\ sent' = [sent EXCEPT ![p] = NoSession]

\* Status 200: the body is decoded.
CallReplyOk(p, body) ==
    /\ pc[p] = "call_wait"
    /\ sent[p] \in hostLive
    /\ CallToolReturn(p, "200", DecodeBody(body))
    /\ UNCHANGED <<agent, llm, mcp_session_id, hostLive, hostIssued, tool, active,
                   nInit, nCall>>

\* Status 400, the tool host's answer to a request without a live session:
\* the stored session id is cleared and an error is returned.
CallReplyExpired(p) ==
    /\ pc[p] = "call_wait"
    /\ sent[p] \notin hostLive
    /\ mcp_session_id' = NoSession
    /\ CallToolReturn(p, "400", Error("Tool call failed: 400"))
    /\ UNCHANGED <<agent, llm, hostLive, hostIssued, tool, active, nInit, nCall>>

\* Any other status: an error is returned.
CallReplyFailed(p) ==
    /\ pc[p] = "call_wait"
    /\ CallToolReturn(p, "500", Error("Tool call failed: 500"))
    /\ UNCHANGED <<agent, llm, mcp_session_id, hostLive, hostIssued, tool, active,
                   nInit, nCall>>

\* A client that answers a transport error by posting the request again.
CallReplyException_Resend(p) ==
    /\ pc[p] = "call_wait"
    /\ nCall[p] < 3
    /\ outcomes' = [outcomes EXCEPT ![p] = Append(@, "exception")]
    /\ nCall' = [nCall EXCEPT ![p] = @ + 1]
    /\ UNCHANGED <<agent, llm, mcp_session_id, hostLive, hostIssued, pc, tool, active,
                   sent, nInit, ret>>

\* The exchange raises: except Exception returns {"error": str(e)}.
CallReplyException(p) ==
    /\ pc[p] = "call_wait"
    /\ CallToolReturn(p, "exception", Error("All connection attempts failed"))
    /\ UNCHANGED <<agent, llm, mcp_session_id, hostLive, hostIssued, tool, active,
                   nInit, nCall>>

\* The caller has taken the returned value; the task is free for another
\* invocation.
CallToolDone(p) ==
    /\ pc[p] = "done"
    /\ pc' = [pc EXCEPT ![p] = "idle"]
    /\ tool' = [tool EXCEPT ![p] = NoTool]
    /\ active' = [active EXCEPT ![p] = FALSE]
    /\ nInit' = [nInit EXCEPT ![p] = 0]
    /\ nCall' = [nCall EXCEPT ![p] = 0]
    /\ outcomes' = [outcomes EXCEPT ![p] = <<>>]
    /\ ret' = [ret EXCEPT ![p] = NoReturn]
    /\ UNCHANGED <<agent, llm, mcp_session_id, hostLive, hostIssued, sent>>

\* The tool host drops a session (idle timeout, restart).
HostExpire ==
    /\ \E t \in hostLive : hostLive' = hostLive \ {t}
    /\ UNCHANGED <<agent, llm, mcp_session_id, hostIssued, pc, tool, active, sent,
                   nInit, nCall, outcomes, ret>>

\* No answer has been decoded yet.
InitDecode == reply_body = NoBody

\* Status 200 with response.text = body, the body kept for inspection.
DecodeReply(p, body) ==
    /\ CallReplyOk(p, body)
    /\ reply_body' = body

\* The caller has taken the returned value of a decoded answer.
DecodeDone(p) ==
    /\ CallToolDone(p)
    /\ reply_body' = NoBody

\* ------------------------------------------------------------------
\* Deterministic dispatch: process_request
\* ------------------------------------------------------------------

\* An Optional[str]: <<>> is None, <<t>> the string t.
None == <<>>
Some(t) == <<t>>

\* request.context: null, or a dict; keys holds the keys with truthy values.
NullContext == [null |-> TRUE, keys |-> {}]
Context(keys) == [null |-> FALSE, keys |-> keys]

Contexts ==
    {NullContext,
     Context({}),
     Context({"flight_id", "vehicle_id", "hotel_id"}),
     Context({"confirmation_code", "rental_id", "reservation_id"}),
     Context({"flight_id", "vehicle_id", "hotel_id", "confirmation_code",
              "rental_id", "reservation_id", "new_return_date"})}

Messages ==
    {"List available airports", "Search flights to LAX", "Book a flight",
     "Cancel my booking", "Cancel my rental", "Show my reservation",
     "Flight details", "Hello", "Book a car", "Find a hotel in Miami",
     "Extend my rental", "Vehicle info"}

NoRequest == [message |-> "", context |-> Context({})]
NoResponse == [success |-> FALSE, message |-> "", data |-> NoReturn,
               tools_called |-> <<>>, error |-> None, set |-> FALSE]

AgentResponse(success, message, data, tools_called, error) ==
    [success |-> success, message |-> message, data |-> data,
     tools_called |-> tools_called, error |-> error, set |-> TRUE]

\* What the if/elif chain decides before any await.
UseTool(t, message) == [kind |-> "tool", tool |-> t, message |-> message, error |-> ""]
Reply(message, error) == [kind |-> "reply", tool |-> NoTool, message |-> message, error |-> error]
FallThrough == [kind |-> "fallthrough", tool |-> NoTool, message |-> "", error |-> ""]
\* request.context.get on a null context
Raise == [kind |-> "raise", tool |-> NoTool, message |-> "",
          error |-> "'NoneType' object has no attribute 'get'"]

\* context.get(key) with a null context raises; otherwise the value's truth.
Needs(c, key, found, missing) ==
    IF c.null THEN Raise ELSE IF key \in c.keys THEN found ELSE missing

\* The names of the arguments process_request passes with each airline tool.
AirlineArguments(tool_name) ==
    CASE tool_name = "list_airports"      -> {}
      [] tool_name = "search_flights"     -> {"origin", "destination", "departure_date",
                                              "passengers", "cabin_class"}
      [] tool_name = "book_flight"        -> {"flight_id", "passengers"}
      [] tool_name = "cancel_booking"     -> {"confirmation_code"}
      [] tool_name = "get_booking"        -> {"confirmation_code"}
      [] tool_name = "get_flight_details" -> {"flight_id"}

\* An airline dispatch without the rule for listing airports.
AirlineDispatch_NoAirportRule(m, c) ==
    IF Contains(m, "search") /\ Contains(m, "flight")
    THEN IF c.null THEN Raise
         ELSE UseTool("search_flights", "Found flights")
    ELSE IF Contains(m, "book") /\ Contains(m, "flight")
    THEN Needs(c, "flight_id",
               UseTool("book_flight", "Flight booked successfully"),
               Reply("Please provide a flight_id to book", "missing_flight_id"))
    ELSE IF Contains(m, "cancel")
    THEN Needs(c, "confirmation_code",
               UseTool("cancel_booking", "Booking cancelled"),
               Reply("Please provide a confirmation_code to cancel",
                     "missing_confirmation_code"))
    ELSE FallThrough

AirlineDispatch(m, c) ==
    IF Contains(m, "airport")
       /\ (Contains(m, "list") \/ Contains(m, "available") \/ Contains(m, "show"))
    THEN UseTool("list_airports", "Here are the available airports")
    ELSE IF Contains(m, "search") /\ Contains(m, "flight")
    THEN IF c.null THEN Raise
         ELSE UseTool("search_flights", "Found flights")
    ELSE IF Contains(m, "book") /\ Contains(m, "flight")
    THEN Needs(c, "flight_id",
               UseTool("book_flight", "Flight booked successfully"),
               Reply("Please provide a flight_id to book", "missing_flight_id"))
    ELSE IF Contains(m, "cancel")
    THEN Needs(c, "confirmation_code",
               UseTool("cancel_booking", "Booking cancelled"),
               Reply("Please provide a confirmation_code to cancel",
                     "missing_confirmation_code"))
    ELSE IF Contains(m, "booking") \/ Contains(m, "reservation")
    THEN Needs(c, "confirmation_code",
               UseTool("get_booking", "Booking details retrieved"),
               FallThrough)
    ELSE IF Contains(m, "flight") /\ Contains(m, "detail")
    THEN Needs(c, "flight_id",
               UseTool("get_flight_details", "Flight details retrieved"),
               FallThrough)
    ELSE FallThrough

HotelDispatch(m, c) ==
    IF Contains(m, "cit") /\ (Contains(m, "list") \/ Contains(m, "available"))
    THEN UseTool("list_cities", "Available cities")
    ELSE IF Contains(m, "search") \/ Contains(m, "find") \/ Contains(m, "hotel")
    THEN IF c.null THEN Raise ELSE UseTool("search_hotels", "Hotels in city")
    ELSE IF Contains(m, "book")
    THEN Needs(c, "hotel_id",
               UseTool("book_hotel", "Hotel booked"),
               Reply("Please provide hotel_id", "missing_hotel_id"))
    ELSE IF Contains(m, "cancel")
    THEN Needs(c, "reservation_id",
               UseTool("cancel_reservation", "Reservation cancelled"),
               Reply("Please provide reservation_id", "missing_reservation_id"))
    ELSE IF Contains(m, "detail") \/ Contains(m, "info")
    THEN Needs(c, "hotel_id",
               UseTool("get_hotel_details", "Hotel details"),
               Reply("Please provide hotel_id", "missing_hotel_id"))
    ELSE UseTool("list_cities", "Available cities for hotels")

CarRentalDispatch(m, c) ==
    IF Contains(m, "location") /\ (Contains(m, "list") \/ Contains(m, "available"))
    THEN UseTool("list_locations", "Available rental locations")
    ELSE IF Contains(m, "categor")
    THEN UseTool("get_vehicle_categories", "Vehicle categories")
    ELSE IF Contains(m, "search") \/ Contains(m, "find")
            \/ (Contains(m, "car") /\ Contains(m, "rent"))
    THEN IF c.null THEN Raise ELSE UseTool("search_vehicles", "Available vehicles")
    ELSE IF Contains(m, "book") \/ Contains(m, "reserve")
    THEN Needs(c, "vehicle_id",
               UseTool("book_vehicle", "Vehicle booked"),
               Reply("Please provide vehicle_id", "missing_vehicle_id"))
    ELSE IF Contains(m, "cancel")
    THEN Needs(c, "rental_id",
               UseTool("cancel_rental", "Rental cancelled"),
               Reply("Please provide rental_id", "missing_rental_id"))
    ELSE IF Contains(m, "modify") \/ Contains(m, "change") \/ Contains(m, "extend")
    THEN IF c.null THEN Raise
         ELSE IF {"rental_id", "new_return_date"} \subseteq c.keys
         THEN UseTool("modify_rental", "Rental modified")
         ELSE Reply("Please provide rental_id and new_return_date",
                    "missing_parameters")
    ELSE IF Contains(m, "detail") \/ Contains(m, "info")
    THEN Needs(c, "vehicle_id",
               UseTool("get_vehicle_details", "Vehicle details"),
               Reply("Please provide vehicle_id", "missing_vehicle_id"))
    ELSE UseTool("list_locations", "Available rental locations")

Dispatch(d, m, c) ==
    CASE d = "airline"    -> AirlineDispatch(m, c)
      [] d = "hotel"      -> HotelDispatch(m, c)
      [] d = "car_rental" -> CarRentalDispatch(m, c)

\* The response of the except clause of process_request.
ExceptionResponse(d, e) ==
    IF d = "airline"
    THEN AgentResponse(FALSE, "An error occurred while processing your request",
                       NoReturn, <<>>, Some(e))
    ELSE AgentResponse(FALSE, e, NoReturn, <<>>, Some(e))

\* The capability summary returned when nothing matched and no LLM is set.
FallbackResponse ==
    AgentResponse(TRUE,
                  "I'm the Airline Agent. I can help with: listing airports, searching flights, booking flights, and managing reservations. Please be more specific about what you need.",
                  [kind |-> "available_tools", text |-> ""], <<>>, None)

\* process_request from its entry to its first await, or to its return when
\* it awaits nothing.
ProcessRequestStart(p, m, c) ==
    /\ rpc = "idle"
    /\ pc[p] = "idle"
    /\ request' = [message |-> m, context |-> c]
    /\ LET d == Dispatch(agent, Lower(m), c) IN
       CASE d.kind = "tool" ->
              /\ CallToolEnter(p, d.tool)
              /\ rpc' = "tool"
              /\ response' = NoResponse
         [] d.kind = "reply" ->
              /\ rpc' = "responded"
              /\ response' = AgentResponse(FALSE, d.message, NoReturn, <<>>,
                                           Some(d.error))
              /\ UNCHANGED clientVars
         [] d.kind = "raise" ->
              /\ rpc' = "responded"
              /\ response' = ExceptionResponse(agent, d.error)
              /\ UNCHANGED clientVars
         [] d.kind = "fallthrough" ->
              /\ IF llm
                 THEN rpc' = "llm" /\ response' = NoResponse
                 ELSE rpc' = "responded" /\ response' = FallbackResponse
              /\ UNCHANGED clientVars

\* A branch of process_request that returns without appending the tool to
\* tools_called.
ProcessRequestToolReturn_NoAppend(p) ==
    /\ rpc = "tool"
    /\ pc[p] = "done"
    /\ LET d == Dispatch(agent, Lower(request.message), request.context) IN
       response' = AgentResponse(TRUE, d.message, ret[p], <<>>, None)
    /\ rpc' = "responded"
    /\ CallToolDone(p)
    /\ UNCHANGED request

\* call_tool has returned: the branch appends the tool to tools_called and
\* returns its AgentResponse with the returned value as data.
ProcessRequestToolReturn(p) ==
    /\ rpc = "tool"
    /\ pc[p] = "done"
    /\ LET d == Dispatch(agent, Lower(request.message), request.context) IN
       response' = AgentResponse(TRUE, d.message, ret[p], <<tool[p]>>, None)
    /\ rpc' = "responded"
    /\ CallToolDone(p)
    /\ UNCHANGED request

\* _llm_process returns the model's text.
ProcessRequestLlmText ==
    /\ rpc = "llm"
    /\ response' = AgentResponse(TRUE, "How can I help with your flight?",
                                 NoReturn, <<>>, None)
    /\ rpc' = "responded"
    /\ UNCHANGED <<request, clientVars>>

\* self.llm.ainvoke raises e: the except clause answers.
ProcessRequestLlmRaise(e) ==
    /\ rpc = "llm"
    /\ response' = ExceptionResponse(agent, e)
    /\ rpc' = "responded"
    /\ UNCHANGED <<request, clientVars>>

\* str(e) of the exceptions an LLM call raises; a timeout's is empty.
LlmErrors == {"Connection error.", ""}

\* The caller has taken the response.
ProcessRequestDone ==
    /\ rpc = "responded"
    /\ rpc' = "idle"
    /\ request' = NoRequest
    /\ response' = NoResponse
    /\ UNCHANGED clientVars

InitRequest ==
    /\ request = NoRequest
    /\ rpc = "idle"
    /\ response = NoResponse

\* ------------------------------------------------------------------
\* The supervisor service: process_query
\* ------------------------------------------------------------------

\* max_iterations: int = 5
DefaultIterations == 5

Queries == {"Book a flight to LAX", "Find a hotel room", "Rent a car", "Hello"}

\* What a specialist's /process returns as data["result"].
AgentResults == {"", "No flights", "Found 3 flights to LAX"}

NoRouterResponse == [kind |-> "none", result |-> "", iterations |-> 0]

Turn(a, task, result) == [agent |-> a, task |-> task, result |-> result]

AnyWord(q, words) == \E w \in words : Contains(q, w)

\* _simple_route
SimpleRoute(q, history) ==
    LET query_lower == Lower(q) IN
    IF AnyWord(query_lower, {"flight", "airport", "airline", "fly"}) THEN "airline"
    ELSE IF AnyWord(query_lower, {"hotel", "room", "accommodation"}) THEN "hotel"
    ELSE IF AnyWord(query_lower, {"car", "rental", "vehicle", "drive"}) THEN "car_rental"
    ELSE IF history = <<>> THEN "airline" ELSE "complete"

\* The code after the loop of process_query.
ServiceSynthesize(history) ==
    /\ rt_pc' = "responded"
    /\ rt_response' =
         IF history # <<>>
         THEN [kind |-> "synthesized", result |-> history[Len(history)].result,
               iterations |-> Len(history)]
         ELSE [kind |-> "unable", result |-> "Unable to process request",
               iterations |-> 0]
    /\ UNCHANGED <<rt_agent, rt_calls>>

\* The loop of process_query from the top of iteration i until it awaits
\* _call_agent or leaves the loop.
ServiceLoop(q, n, i, history) ==
    /\ iteration' = i
    /\ conversation_history' = history
    /\ rt_complete' = (i < n /\ SimpleRoute(q, history) = "complete")
    /\ IF i < n /\ SimpleRoute(q, history) # "complete"
       THEN /\ rt_pc' = "calling"
            /\ rt_agent' = SimpleRoute(q, history)
            /\ rt_calls' = rt_calls + 1
            /\ UNCHANGED rt_response
       ELSE ServiceSynthesize(history)

ProcessQuery(q, n) ==
    /\ rt_pc = "idle"
    /\ rt_impl' = "service"
    /\ query' = q
    /\ max_iterations' = n
    /\ ServiceLoop(q, n, 0, <<>>)

\* _call_agent returns result: the turn is appended; a result longer than
\* 10 characters ends the loop.
ServiceAgentReturns(result) ==
    /\ rt_impl = "service"
    /\ rt_pc = "calling"
    /\ LET history == Append(conversation_history, Turn(rt_agent, query, result))
       IN  IF result # "" /\ Len(result) > 10
           THEN /\ ServiceSynthesize(history)
                /\ conversation_history' = history
                /\ rt_complete' = TRUE
                /\ UNCHANGED iteration
           ELSE ServiceLoop(query, max_iterations, iteration + 1, history)
    /\ UNCHANGED <<rt_impl, query, max_iterations>>

\* _call_agent raises (connection error, raise_for_status, no "result" key):
\* the handler returns at once.
ServiceAgentRaises ==
    /\ rt_impl = "service"
    /\ rt_pc = "calling"
    /\ rt_pc' = "responded"
    /\ rt_response' = [kind |-> "error",
                       result |-> "Error calling " \o rt_agent \o " agent: All connection attempts failed",
                       iterations |-> iteration + 1]
    /\ UNCHANGED <<rt_impl, query, max_iterations, iteration,
                   conversation_history, rt_agent, rt_calls, rt_complete>>

\* ------------------------------------------------------------------
\* The travel supervisor: route_and_execute
\* ------------------------------------------------------------------

RouteTargets == {"airline", "hotel", "car_rental", "complete"}

\* Texts the LLM answers the synthesis prompt with.
SynthesisTexts == {"Here is a summary of your trip.", ""}

\* _synthesize_response without its "if not history" return.
LegacySynthesize_AlwaysLlm(history) ==
    /\ rt_pc' = "synthesizing"
    /\ UNCHANGED rt_response

\* _synthesize_response up to its LLM call, or to its return with no turn.
LegacySynthesize(history) ==
    IF history = <<>>
    THEN /\ rt_pc' = "responded"
         /\ rt_response' = [kind |-> "unable",
                            result |-> "I wasn't able to complete your request. Please try rephrasing or breaking it down into simpler steps.",
                            iterations |-> 0]
    ELSE /\ rt_pc' = "synthesizing"
         /\ UNCHANGED rt_response

\* route_and_execute(user_request, max_iterations = n) from its entry to
\* the LLM's routing decision, or to synthesis at the iteration limit.
RouteAndExecute(q, n) ==
    /\ rt_pc = "idle"
    /\ rt_impl' = "legacy"
    /\ query' = q
    /\ max_iterations' = n
    /\ IF 0 >= n
       THEN LegacySynthesize(<<>>)
       ELSE rt_pc' = "routing" /\ UNCHANGED rt_response
    /\ UNCHANGED <<iteration, conversation_history, rt_agent, rt_calls,
                   rt_complete>>

\* The structured routing decision arrives: complete goes to synthesis, a
\* specialist is called otherwise.
RouteDecision(target) ==
    /\ rt_impl = "legacy"
    /\ rt_pc = "routing"
    /\ IF target = "complete"
       THEN /\ LegacySynthesize(conversation_history)
            /\ rt_complete' = TRUE
            /\ UNCHANGED <<rt_agent, rt_calls>>
       ELSE /\ rt_pc' = "calling"
            /\ rt_agent' = target
            /\ rt_calls' = rt_calls + 1
            /\ UNCHANGED <<rt_complete, rt_response>>
    /\ UNCHANGED <<rt_impl, query, max_iterations, iteration,
                   conversation_history>>

\* agent.process returns: the turn is appended and _check_continuation
\* runs up to its LLM call, or to synthesis at the iteration limit.
LegacyAgentReturns(result) ==
    /\ rt_impl = "legacy"
    /\ rt_pc = "calling"
    /\ LET history == Append(conversation_history, Turn(rt_agent, query, result))
       IN  /\ conversation_history' = history
           /\ IF Len(history) >= max_iterations
              THEN LegacySynthesize(history)
              ELSE rt_pc' = "checking" /\ UNCHANGED rt_response
    /\ UNCHANGED <<rt_impl, query, max_iterations, iteration, rt_agent,
                   rt_calls, rt_complete>>

\* The continuation decision arrives: complete goes to synthesis, anything
\* else re-enters route_and_execute, which asks for a routing decision.
CheckContinuation(target) ==
    /\ rt_impl = "legacy"
    /\ rt_pc = "checking"
    /\ IF target = "complete"
       THEN LegacySynthesize(conversation_history) /\ rt_complete' = TRUE
       ELSE rt_pc' = "routing" /\ UNCHANGED <<rt_complete, rt_response>>
    /\ UNCHANGED <<rt_impl, query, max_iterations, iteration,
                   conversation_history, rt_agent, rt_calls>>

\* The LLM answers the synthesis prompt.
LegacySynthesized(text) ==
    /\ rt_impl = "legacy"
    /\ rt_pc = "synthesizing"
    /\ rt_pc' = "responded"
    /\ rt_response' = [kind |-> "synthesized", result |-> text,
                       iterations |-> Len(conversation_history)]
    /\ UNCHANGED <<rt_impl, query, max_iterations, iteration,
                   conversation_history, rt_agent, rt_calls, rt_complete>>

\* An LLM call or agent.process raises: nothing in route_and_execute
\* catches it and the exception reaches the caller.
LegacyRaises ==
    /\ rt_impl = "legacy"
    /\ rt_pc \in {"routing", "calling", "checking", "synthesizing"}
    /\ rt_pc' = "responded"
    /\ rt_response' = [kind |-> "raised", result |-> "",
                       iterations |-> Len(conversation_history)]
    /\ UNCHANGED <<rt_impl, query, max_iterations, iteration,
                   conversation_history, rt_agent, rt_calls, rt_complete>>

\* The caller has taken the response.
RouterDone ==
    /\ rt_pc = "responded"
    /\ rt_pc' = "idle"
    /\ rt_impl' = "none"
    /\ query' = ""
    /\ max_iterations' = 0
    /\ iteration' = 0
    /\ conversation_history' = <<>>
    /\ rt_agent' = "none"
    /\ rt_calls' = 0
    /\ rt_complete' = FALSE
    /\ rt_response' = NoRouterResponse

InitRouter ==
    /\ rt_impl = "none"
    /\ rt_pc = "idle"
    /\ query = ""
    /\ max_iterations = 0
    /\ iteration = 0
    /\ conversation_history = <<>>
    /\ rt_agent = "none"
    /\ rt_calls = 0
    /\ rt_complete = FALSE
    /\ rt_response = NoRouterResponse

\* ------------------------------------------------------------------
\* The single-call routers: TravelSupervisor.process_request and chat
\* ------------------------------------------------------------------

\* Messages a user sends to a single-call router.
FrontMessages ==
    {"Show me my flight", "Plan a trip to Paris", "Book a flight to LAX",
     "Find a hotel room", "Cancel my car rental", "Hello", "Travel tips",
     "List available airports"}

\* The JSON a specialist's /invoke answers with status 200: its
\* AgentResponse.
AgentJsons ==
    {[success |-> TRUE, message |-> "Found flights", error |-> None,
      tools_called |-> <<"search_flights">>],
     [success |-> TRUE, message |-> "Flight booked", error |-> None,
      tools_called |-> <<"book_flight">>],
     [success |-> FALSE, message |-> "Please provide a flight_id to book",
      error |-> Some("missing_flight_id"), tools_called |-> <<>>],
     [success |-> FALSE, message |-> "An error occurred while processing your request",
      error |-> Some(""), tools_called |-> <<>>]}

\* str(e) of the exceptions an HTTP exchange raises; httpx timeouts carry an
\* empty message.
TransportErrors == {"All connection attempts failed", ""}

\* Optional[str] as Python's truth test sees it.
Truthy(o) == o # None /\ o # Some("")

\* A SupervisorResponse or ChatResponse.
FrontResponse(kind, success, message, error, agent_used) ==
    [kind |-> kind, result |-> message, iterations |-> 0, success |-> success,
     error |-> error, agent_used |-> agent_used]

\* The handler returns r.
FrontRespond(r) ==
    /\ rt_pc' = "responded"
    /\ rt_response' = r

\* await self.http_client.post(f"{agent.url}/invoke", ...)
FrontPostInvoke ==
    /\ rt_pc' = "calling"
    /\ rt_calls' = rt_calls + 1
    /\ UNCHANGED rt_response

\* A keyword classifier that takes a message without any domain word for a
\* follow-up to the airline desk once an earlier message has been classified.
ClassifyIntentKeywords_FollowUp(message) ==
    LET message_lower == Lower(message) IN
    IF AnyWord(message_lower, {"flight", "airport", "airline", "fly", "plane", "boarding"})
    THEN "airline"
    ELSE IF AnyWord(message_lower, {"hotel", "room", "stay", "accommodation", "lodge",
                                    "inn", "resort"})
    THEN "hotel"
    ELSE IF AnyWord(message_lower, {"car", "vehicle", "rental", "rent", "drive", "pickup"})
    THEN "car-rental"
    ELSE IF classified # <<>> THEN "airline" ELSE "unknown"

\* _classify_intent_keywords
ClassifyIntentKeywords(message) ==
    LET message_lower == Lower(message) IN
    IF AnyWord(message_lower, {"flight", "airport", "airline", "fly", "plane", "boarding"})
    THEN "airline"
    ELSE IF AnyWord(message_lower, {"hotel", "room", "stay", "accommodation", "lodge",
                                    "inn", "resort"})
    THEN "hotel"
    ELSE IF AnyWord(message_lower, {"car", "vehicle", "rental", "rent", "drive", "pickup"})
    THEN "car-rental"
    ELSE "unknown"

\* What get_user_context returns: None, a context without an active trip,
\* or one with an active trip.
NoContext == "none"
UserContexts == {NoContext, "no_trip", "active_trip"}

\* A keyword classifier was called with (message, context) and returned
\* intent; the call is kept, after the one before it when that one had the
\* same inputs.
Classified(impl, message, context, intent) ==
    LET call == [impl |-> impl, message |-> message, context |-> context,
                 intent |-> intent]
        last == classified[Len(classified)]
    IN  classified' = IF /\ classified # <<>>
                         /\ last.impl = impl
                         /\ last.message = message
                         /\ last.context = context
                      THEN <<last, call>>
                      ELSE <<call>>

\* _classify_intent_keywords over the messages tried, computed once.
KeywordIntent == [m \in FrontMessages |-> ClassifyIntentKeywords(m)]

\* What the LLM answers the classification prompt with.
LlmIntents == {"airline", " Hotel\n", "car-rental", "unknown", "I think this is about flights."}

\* The help text process_request answers an unknown intent with.
SupervisorHelp ==
    FrontResponse("supervisor", TRUE, "I'm the Travel Supervisor. Please specify what you'd like help with!",
                  None, None)

\* process_request once the intent is known, up to the first await of
\* route_to_agent or to the return.
SupervisorRoute(intent, healthy) ==
    /\ rt_agent' = intent
    /\ IF intent = "unknown"
       THEN /\ FrontRespond(SupervisorHelp)
            /\ UNCHANGED rt_calls
       ELSE IF ~healthy
       THEN /\ rt_pc' = "health_wait"
            /\ UNCHANGED <<rt_calls, rt_response>>
       ELSE FrontPostInvoke

\* TravelSupervisor.process_request(UserRequest(message)) up to its first
\* await; use_llm tells whether self.llm is set, healthy is agent.healthy as
\* discovery left it.
SupervisorProcessRequest(message, use_llm, healthy) ==
    /\ rt_pc = "idle"
    /\ rt_impl' = "supervisor"
    /\ query' = message
    /\ rt_healthy' = healthy
    /\ IF use_llm
       THEN /\ rt_pc' = "classifying"
            /\ UNCHANGED <<rt_agent, rt_calls, rt_response, classified>>
       ELSE /\ SupervisorRoute(KeywordIntent[message], healthy)
            /\ Classified("supervisor", message, NoContext, KeywordIntent[message])
    /\ UNCHANGED <<max_iterations, iteration, conversation_history, rt_complete,
                   rt_context, rt_result, rt_appends>>

\* The LLM answers the classification prompt with content.
SupervisorClassified(content) ==
    /\ rt_impl = "supervisor"
    /\ rt_pc = "classifying"
    /\ LET intent == Lower(Strip(content)) IN
       SupervisorRoute(IF intent \in {"airline", "hotel", "car-rental"}
                       THEN intent ELSE "unknown", rt_healthy)
    /\ UNCHANGED <<rt_impl, query, max_iterations, iteration, conversation_history,
                   rt_complete, frontVars>>

\* The LLM call raises: the keyword classifier decides.
SupervisorClassifyRaises ==
    /\ rt_impl = "supervisor"
    /\ rt_pc = "classifying"
    /\ SupervisorRoute(KeywordIntent[query], rt_healthy)
    /\ Classified("supervisor", query, NoContext, KeywordIntent[query])
    /\ UNCHANGED <<rt_impl, query, max_iterations, iteration, conversation_history,
                   rt_complete, rt_healthy, rt_context, rt_result, rt_appends>>

\* What process_request makes of the dict route_to_agent returned.
SupervisorResult(success, message, error) ==
    IF success
    THEN FrontResponse("supervisor", TRUE, message, None, Some(rt_agent))
    ELSE FrontResponse("supervisor", FALSE, "Failed to process request", error,
                       Some(rt_agent))

\* The GET /health of route_to_agent answers (ok) or fails (any other
\* status, or an exception that is passed over).
SupervisorHealthReply(ok) ==
    /\ rt_impl = "supervisor"
    /\ rt_pc = "health_wait"
    /\ rt_healthy' = ok
    /\ IF ok
       THEN FrontPostInvoke
       ELSE /\ FrontRespond(SupervisorResult(FALSE, "",
                              Some("Agent " \o rt_agent \o " is not available")))
            /\ UNCHANGED rt_calls
    /\ UNCHANGED <<rt_impl, query, max_iterations, iteration, conversation_history,
                   rt_agent, rt_complete, rt_context, rt_result, rt_appends,
                   classified>>

\* The agent answers /invoke with status 200 and json.
SupervisorAgentReplies(json) ==
    /\ rt_impl = "supervisor"
    /\ rt_pc = "calling"
    /\ FrontRespond(SupervisorResult(json.success, json.message, json.error))
    /\ UNCHANGED <<rt_impl, query, max_iterations, iteration, conversation_history,
                   rt_agent, rt_calls, rt_complete, frontVars>>

\* The agent answers /invoke with another status.
SupervisorAgentStatus ==
    /\ rt_impl = "supervisor"
    /\ rt_pc = "calling"
    /\ FrontRespond(SupervisorResult(FALSE, "", Some("Agent returned 500")))
    /\ UNCHANGED <<rt_impl, query, max_iterations, iteration, conversation_history,
                   rt_agent, rt_calls, rt_complete, frontVars>>

\* The POST raises e: route_to_agent returns {"success": False, "error": str(e)}.
SupervisorAgentRaises(e) ==
    /\ rt_impl = "supervisor"
    /\ rt_pc = "calling"
    /\ FrontRespond(SupervisorResult(FALSE, "", Some(e)))
    /\ UNCHANGED <<rt_impl, query, max_iterations, iteration, conversation_history,
                   rt_agent, rt_calls, rt_complete, frontVars>>

\* classify_intent
ClassifyIntent(message, context) ==
    LET message_lower == Lower(message)
        has_trip == context = "active_trip"
        domain ==
            IF AnyWord(message_lower, {"flight", "fly", "airport", "airline", "plane"})
            THEN "airline"
            ELSE IF AnyWord(message_lower, {"hotel", "room", "stay", "accommodation", "lodge"})
            THEN "hotel"
            ELSE IF AnyWord(message_lower, {"car", "vehicle", "rent", "rental", "drive"})
            THEN "car-rental"
            ELSE IF AnyWord(message_lower, {"trip", "travel", "vacation", "journey"})
            THEN "multi"
            ELSE "none"
        intent_type ==
            IF AnyWord(message_lower, {"my booking", "my flight", "my hotel", "my reservation",
                                       "my trip", "my itinerary", "what time", "when is",
                                       "show me", "what do i have"})
            THEN "query_itinerary"
            ELSE IF AnyWord(message_lower, {"cancel", "delete", "remove"})
            THEN "cancel_booking"
            ELSE IF AnyWord(message_lower, {"change", "modify", "update", "reschedule"})
            THEN "modify_booking"
            ELSE IF AnyWord(message_lower, {"plan a trip", "planning a trip", "new trip",
                                            "going to", "want to go", "need to go",
                                            "traveling to", "travel to"})
            THEN "create_trip"
            ELSE IF has_trip /\ AnyWord(message_lower, {"add", "book", "reserve", "get me",
                                                        "find me", "i need", "i want"})
            THEN "add_to_trip"
            ELSE IF AnyWord(message_lower, {"search", "find", "look for", "show", "list",
                                            "available", "options"})
            THEN "search"
            ELSE IF AnyWord(message_lower, {"book", "reserve", "purchase"})
            THEN IF has_trip THEN "add_to_trip" ELSE "create_trip"
            ELSE "general"
    IN  [type |-> intent_type, domain |-> domain]

\* classify_intent over the messages and contexts tried, computed once.
ContextIntent ==
    [m \in FrontMessages |-> [c \in UserContexts |-> ClassifyIntent(m, c)]]

\* Messages classify_intent is tried on: booking messages with and without
\* the words of the earlier rules, and messages of the other intents.
IntentMessages ==
    {"Book a flight to LAX", "Reserve a hotel room", "Purchase a ticket",
     "Find and book a hotel", "Book a car and list the options",
     "I need a flight to Paris", "Find me a rental car", "Book my flight",
     "Cancel my booking", "Search flights to LAX", "Plan a trip to Paris",
     "Reserve a car", "I want a hotel room", "Get me a flight to LAX",
     "Add a hotel", "Change my reservation", "Book a room and show options",
     "Hello"}

\* classify_intent(message, context) is called and returns.
ClassifyIntentCall(message, context) ==
    /\ rt_pc = "idle"
    /\ Classified("planner", message, context, ClassifyIntent(message, context))
    /\ UNCHANGED <<rt_healthy, rt_context, rt_result, rt_appends>>

\* chat(ChatRequest(message)) up to its first await, get_user_context.
Chat(message) ==
    /\ rt_pc = "idle"
    /\ rt_impl' = "planner"
    /\ query' = message
    /\ rt_pc' = "context_wait"
    /\ UNCHANGED <<max_iterations, iteration, conversation_history, rt_agent,
                   rt_calls, rt_complete, rt_response, frontVars>>

\* A chat that looks at the domain before the intent type.
ChatContext_DomainFirst(context, healthy) ==
    /\ rt_impl = "planner"
    /\ rt_pc = "context_wait"
    /\ rt_context' = context
    /\ rt_healthy' = healthy
    /\ Classified("planner", query, context, ContextIntent[query][context])
    /\ UNCHANGED <<rt_result, rt_appends>>
    /\ LET intent == ContextIntent[query][context] IN
       IF intent.domain \in {"airline", "hotel", "car-rental"}
       THEN /\ rt_agent' = intent.domain
            /\ IF healthy
               THEN FrontPostInvoke
               ELSE /\ rt_pc' = "health_wait"
                    /\ UNCHANGED <<rt_calls, rt_response>>
       ELSE IF intent.type = "create_trip"
       THEN /\ rt_pc' = "trip_wait"
            /\ UNCHANGED <<rt_agent, rt_calls, rt_response>>
       ELSE /\ FrontRespond(FrontResponse("chat", TRUE, "I'm your Travel Planner!",
                                          None, None))
            /\ UNCHANGED <<rt_agent, rt_calls>>
    /\ UNCHANGED <<rt_impl, query, max_iterations, iteration, conversation_history,
                   rt_complete>>

\* get_user_context returns context; the intent is classified and chat runs
\* to its next await or to its return.  healthy is agent.healthy of the
\* agent of the classified domain as earlier requests left it.
ChatContext(context, healthy) ==
    /\ rt_impl = "planner"
    /\ rt_pc = "context_wait"
    /\ rt_context' = context
    /\ rt_healthy' = healthy
    /\ Classified("planner", query, context, ContextIntent[query][context])
    /\ UNCHANGED <<rt_result, rt_appends>>
    /\ LET intent == ContextIntent[query][context] IN
       IF intent.type = "query_itinerary"
       THEN /\ FrontRespond(FrontResponse("chat", TRUE,
                               IF context # NoContext THEN "itinerary"
                               ELSE "I couldn't find any trip information. Would you like to plan a new trip?",
                               None, None))
            /\ UNCHANGED <<rt_agent, rt_calls>>
       ELSE IF intent.type = "create_trip"
       THEN /\ rt_pc' = "trip_wait"
            /\ UNCHANGED <<rt_agent, rt_calls, rt_response>>
       ELSE IF intent.domain \in {"airline", "hotel", "car-rental"}
       THEN /\ rt_agent' = intent.domain
            /\ IF healthy
               THEN FrontPostInvoke
               ELSE /\ rt_pc' = "health_wait"
                    /\ UNCHANGED <<rt_calls, rt_response>>
       ELSE /\ FrontRespond(FrontResponse("chat", TRUE,
                               IF intent.domain = "multi"
                               THEN "I can help you plan your trip! What would you like to start with - flights, hotels, or car rental?"
                               ELSE "I'm your Travel Planner! What would you like to do?",
                               None, None))
            /\ UNCHANGED <<rt_agent, rt_calls>>
    /\ UNCHANGED <<rt_impl, query, max_iterations, iteration, conversation_history,
                   rt_complete>>

\* create_trip returns the trip (ok) or None.
ChatTripReply(ok) ==
    /\ rt_impl = "planner"
    /\ rt_pc = "trip_wait"
    /\ FrontRespond(IF ok
                    THEN FrontResponse("chat", TRUE, "I've started planning your trip!",
                                       None, None)
                    ELSE FrontResponse("chat", FALSE,
                                       "I had trouble creating your trip. Please try again.",
                                       Some("Failed to create trip"), None))
    /\ UNCHANGED <<rt_impl, query, max_iterations, iteration, conversation_history,
                   rt_agent, rt_calls, rt_complete, frontVars>>

\* chat after call_agent returned a dict with these members (error and
\* success as dict.get sees them: an absent success counts as True).
ChatResult(success, message, error) ==
    IF Truthy(error)
    THEN FrontResponse("chat", FALSE, "I encountered an issue: " \o error[1], error,
                       Some(rt_agent))
    ELSE IF ~success
    THEN FrontResponse("chat", FALSE, message, Some("Agent request failed"),
                       Some(rt_agent))
    ELSE FrontResponse("chat", TRUE, message, None, Some(rt_agent))

\* dict.get(key, default)
DictGet(d, key, default) == IF key \in DOMAIN d THEN d[key] ELSE default

\* The dict call_agent returns for a status-200 answer json, and the one it
\* returns for a failure.
CallAgentResult(json) ==
    [message |-> json.message, tools_called |-> json.tools_called,
     error |-> json.error, success |-> json.success]

CallAgentError(text) == [error |-> Some(text)]

\* No call_agent has returned for the request.
NoResult == [key \in {} |-> None]

\* chat once call_agent has returned result: the response, and the
\* add_itinerary_item call chat makes before a successful one when the
\* intent is add-to-trip, the context has an active trip and result has a
\* booking (what add_itinerary_item returns is not looked at).
ChatAfterAgent(result) ==
    LET error == DictGet(result, "error", None)
        success == DictGet(result, "success", TRUE)
    IN  /\ rt_result' = result
        /\ FrontRespond(ChatResult(success,
                                   DictGet(result, "message", "Request processed"),
                                   error))
        /\ rt_appends' =
              IF /\ ~Truthy(error)
                 /\ success
                 /\ ContextIntent[query][rt_context].type = "add_to_trip"
                 /\ rt_context = "active_trip"
                 /\ DictGet(result, "booking", None) # None
              THEN rt_appends + 1
              ELSE rt_appends

\* check_agent_health in call_agent returns ok.
ChatHealthReply(ok) ==
    /\ rt_impl = "planner"
    /\ rt_pc = "health_wait"
    /\ rt_healthy' = ok
    /\ IF ok
       THEN /\ FrontPostInvoke
            /\ UNCHANGED <<rt_result, rt_appends>>
       ELSE /\ ChatAfterAgent(CallAgentError("Agent " \o rt_agent \o " is not available"))
            /\ UNCHANGED rt_calls
    /\ UNCHANGED <<rt_impl, query, max_iterations, iteration, conversation_history,
                   rt_agent, rt_complete, rt_context, classified>>

\* The agent answers /invoke with status 200 and json.
ChatAgentReplies(json) ==
    /\ rt_impl = "planner"
    /\ rt_pc = "calling"
    /\ ChatAfterAgent(CallAgentResult(json))
    /\ UNCHANGED <<rt_impl, query, max_iterations, iteration, conversation_history,
                   rt_agent, rt_calls, rt_complete, rt_healthy, rt_context,
                   classified>>

\* The agent answers /invoke with another status.
ChatAgentStatus ==
    /\ rt_impl = "planner"
    /\ rt_pc = "calling"
    /\ ChatAfterAgent(CallAgentError("Agent returned status 500"))
    /\ UNCHANGED <<rt_impl, query, max_iterations, iteration, conversation_history,
                   rt_agent, rt_calls, rt_complete, rt_healthy, rt_context,
                   classified>>

\* The POST raises e: call_agent returns {"error": str(e)}.
ChatAgentRaises(e) ==
    /\ rt_impl = "planner"
    /\ rt_pc = "calling"
    /\ ChatAfterAgent(CallAgentError(e))
    /\ UNCHANGED <<rt_impl, query, max_iterations, iteration, conversation_history,
                   rt_agent, rt_calls, rt_complete, rt_healthy, rt_context,
                   classified>>

\* The caller of a single-call router has taken the response.
FrontDone ==
    /\ rt_impl \in {"supervisor", "planner"}
    /\ RouterDone
    /\ rt_healthy' = FALSE
    /\ rt_context' = NoContext
    /\ rt_result' = NoResult
    /\ rt_appends' = 0
    /\ UNCHANGED classified

InitFront ==
    /\ rt_healthy = FALSE
    /\ rt_context = NoContext
    /\ rt_result = NoResult
    /\ rt_appends = 0
    /\ classified = <<>>

\* ------------------------------------------------------------------
\* The sidecar-wrapped LLM agent (SecureLLMAgent)
\* ------------------------------------------------------------------

\* Trust-scored tool calls of one agent id the model follows.
MaxScored == 22

\* MockPDP.AGENT_PERMISSIONS
AGENT_PERMISSIONS ==
    [supervisor |-> {"search_flights", "search_hotels", "search_cars", "book_flight"},
     airline    |-> {"search_flights", "book_flight"},
     hotel      |-> {"search_hotels"},
     car_rental |-> {"search_cars"}]

\* tools = [search_flights, search_hotels, search_cars, book_flight] in main
DemoTools == {"search_flights", "search_hotels", "search_cars", "book_flight"}

\* The agent ids main builds a SecureLLMAgent for.
DemoAgents == {"supervisor", "airline"}

\* The tool names the model asks for, one of them no tool at all.
RequestedTools == {"search_flights", "search_hotels", "cancel_flight"}

\* response.tool_calls: up to two requested tools.
ToolCallLists ==
    {<<>>} \cup {<<t>> : t \in RequestedTools}
           \cup {<<t, u>> : t \in RequestedTools, u \in RequestedTools}

\* A pass of _check_security that leaves the PDP out.
PdpCheck_AllowAll(agent_id, tool_name) == TRUE

\* MockPDP.check
PdpCheck(agent_id, tool_name) ==
    LET perms == IF agent_id \in DOMAIN AGENT_PERMISSIONS
                 THEN AGENT_PERMISSIONS[agent_id] ELSE {}
    IN  tool_name \in perms

\* MockTrustScorer.score with the low score given one call earlier.
TrustScore_OneEarlier(count) == IF count >= 20 THEN 3 ELSE IF count > 10 THEN 6 ELSE 9

\* MockTrustScorer.score for a count of earlier calls, in tenths.
TrustScore(count) == IF count > 20 THEN 3 ELSE IF count > 10 THEN 6 ELSE 9

\* _execute_tool for each tool call in turn, with _check_security in it:
\* the results, the tools invoked and the scorer's counts after the loop.
RECURSIVE ExecuteTools(_, _, _, _, _)
ExecuteTools(agent_id, calls, counts, results, executed) ==
    IF calls = <<>>
    THEN [results |-> results, executed |-> executed, counts |-> counts]
    ELSE LET tool_name == Head(calls)
             allowed == PdpCheck(agent_id, tool_name)
             count == counts[agent_id]
             scored == IF allowed
                       THEN [counts EXCEPT ![agent_id] = count + 1]
                       ELSE counts
             secure == allowed /\ ~(TrustScore(count) < 5)
         IN  IF ~secure
             THEN ExecuteTools(agent_id, Tail(calls), scored,
                               Append(results, "Security blocked: " \o tool_name),
                               executed)
             ELSE IF tool_name \in DemoTools
             THEN ExecuteTools(agent_id, Tail(calls), scored,
                               Append(results, "Found 3 with " \o tool_name),
                               Append(executed, tool_name))
             ELSE ExecuteTools(agent_id, Tail(calls), scored,
                               Append(results, "Tool " \o tool_name \o " not found"),
                               executed)

\* run(user_message) of the agent agent_id, up to the first LLM call.
DemoRun(agent_id) ==
    /\ demo_pc = "idle"
    /\ demo_pc' = "llm_wait"
    /\ demo_agent' = agent_id
    /\ UNCHANGED <<demo_tool_calls, tool_results, demo_executed, call_counts>>

\* The LLM answers with tool_calls (none: its content is the answer); every
\* call goes through _execute_tool, then the LLM is asked for the final
\* answer.
DemoLlmReplies(calls) ==
    /\ demo_pc = "llm_wait"
    /\ call_counts[demo_agent] + Len(calls) <= MaxScored
    /\ demo_tool_calls' = calls
    /\ LET after == ExecuteTools(demo_agent, calls, call_counts, <<>>, <<>>) IN
       /\ tool_results' = after.results
       /\ demo_executed' = after.executed
       /\ call_counts' = after.counts
    /\ demo_pc' = IF calls = <<>> THEN "done" ELSE "final_wait"
    /\ UNCHANGED demo_agent

\* The LLM gives the final answer from the tool results.
DemoFinalReply ==
    /\ demo_pc = "final_wait"
    /\ demo_pc' = "done"
    /\ UNCHANGED <<demo_agent, demo_tool_calls, tool_results, demo_executed,
                   call_counts>>

\* main goes on to its next demo.
DemoNext ==
    /\ demo_pc = "done"
    /\ demo_pc' = "idle"
    /\ demo_agent' = "none"
    /\ demo_tool_calls' = <<>>
    /\ tool_results' = <<>>
    /\ demo_executed' = <<>>
    /\ UNCHANGED call_counts

InitDemo ==
    /\ demo_pc = "idle"
    /\ demo_agent = "none"
    /\ demo_tool_calls = <<>>
    /\ tool_results = <<>>
    /\ demo_executed = <<>>
    /\ call_counts = [a \in DemoAgents |-> 0]

\* ------------------------------------------------------------------
\* The tool hosts' requests to their domain backends
\* (mcp-servers/airline/server.py, mcp-servers/car-rental/server.py)
\* ------------------------------------------------------------------

\* What each tool puts before result['error'] in the text it returns.
AirlineTools ==
    [search_flights     |-> "Error searching flights: ",
     book_flight        |-> "Error booking flight: ",
     get_booking        |-> "Error retrieving booking: ",
     get_booking_by_pnr |-> "Error retrieving booking: ",
     cancel_booking     |-> "Error cancelling booking: ",
     list_airports      |-> "Error listing airports: "]

CarRentalTools ==
    [search_vehicles            |-> "Error searching vehicles: ",
     book_vehicle               |-> "Error booking vehicle: ",
     get_rental                 |-> "Error retrieving rental: ",
     get_rental_by_confirmation |-> "Error retrieving rental: ",
     cancel_rental              |-> "Error cancelling rental: ",
     list_locations             |-> "Error listing locations: ",
     list_vehicle_categories    |-> "Error listing categories: ",
     list_add_ons               |-> "Error listing add-ons: "]

HostTools == DOMAIN AirlineTools \cup DOMAIN CarRentalTools

ErrorPrefix(tool_name) ==
    IF tool_name \in DOMAIN AirlineTools THEN AirlineTools[tool_name]
    ELSE CarRentalTools[tool_name]

\* The service name in the text of a failed connection.
ServiceName(tool_name) ==
    IF tool_name \in DOMAIN AirlineTools THEN "airline" ELSE "car rental"

\* A backend's answer: status code, reason phrase and body.
BackendResponse(status_code, reason, content) ==
    [status_code |-> status_code, reason |-> reason, content |-> content]

NoBackendResponse == BackendResponse(0, "", "")

\* The answers the backends of services/ give: a success body, an
\* HTTPException (a JSON object with "detail"), the 503 of the failure
\* injection (a JSON object without "detail"), the plain-text 500 of an
\* unhandled exception, and an error status with an empty body.
BackendResponses ==
    {BackendResponse(200, "200 OK", "{\"success\": true}"),
     BackendResponse(404, "404 Not Found", "{\"detail\": \"Booking not found\"}"),
     BackendResponse(404, "404 Not Found", "{\"detail\": \"Rental not found\"}"),
     BackendResponse(400, "400 Bad Request",
                     "{\"detail\": \"Invalid date format. Use YYYY-MM-DD\"}"),
     BackendResponse(409, "409 Conflict",
                     "{\"detail\": \"Vehicle not available for selected dates\"}"),
     BackendResponse(503, "503 Service Unavailable",
                     "{\"error\": \"Chaos engineering: simulated failure\"}"),
     BackendResponse(500, "500 Internal Server Error", "Internal Server Error"),
     BackendResponse(404, "404 Not Found", "")}

\* response.json(): the parsed object, or ok = FALSE when json.loads raises.
\* has_detail says whether the object has the key "detail".
ResponseJson(content) ==
    CASE content = "{\"success\": true}" ->
             [ok |-> TRUE, has_detail |-> FALSE, detail |-> ""]
      [] content = "{\"detail\": \"Booking not found\"}" ->
             [ok |-> TRUE, has_detail |-> TRUE, detail |-> "Booking not found"]
      [] content = "{\"detail\": \"Rental not found\"}" ->
             [ok |-> TRUE, has_detail |-> TRUE, detail |-> "Rental not found"]
      [] content = "{\"detail\": \"Invalid date format. Use YYYY-MM-DD\"}" ->
             [ok |-> TRUE, has_detail |-> TRUE,
              detail |-> "Invalid date format. Use YYYY-MM-DD"]
      [] content = "{\"detail\": \"Vehicle not available for selected dates\"}" ->
             [ok |-> TRUE, has_detail |-> TRUE,
              detail |-> "Vehicle not available for selected dates"]
      [] content = "{\"error\": \"Chaos engineering: simulated failure\"}" ->
             [ok |-> TRUE, has_detail |-> FALSE, detail |-> ""]
      [] OTHER -> [ok |-> FALSE, has_detail |-> FALSE, detail |-> ""]

\* str(e) of the httpx.HTTPStatusError that raise_for_status raises.
HTTPStatusErrorStr(r) ==
    (IF r.status_code < 500 THEN "Client error '" ELSE "Server error '")
        \o r.reason \o "' for url"

\* call_airline_service / call_car_rental_service once the backend has
\* answered: the dict it returns (has_error: the key "error" is in it), or
\* raised = TRUE when an exception leaves it. An error status goes through
\* the HTTPStatusError handler, whose e.response.json() is not in any try.
CallService(r) ==
    LET j == ResponseJson(r.content)
    IN  IF r.status_code < 400
        THEN [raised |-> ~j.ok, has_error |-> FALSE, error |-> ""]
        ELSE IF r.content = ""
             THEN [raised |-> FALSE, has_error |-> TRUE, error |-> HTTPStatusErrorStr(r)]
             ELSE IF ~j.ok
                  THEN [raised |-> TRUE, has_error |-> FALSE, error |-> ""]
                  ELSE [raised |-> FALSE, has_error |-> TRUE,
                        error |-> IF j.has_detail THEN j.detail
                                  ELSE HTTPStatusErrorStr(r)]

\* The text a tool returns for a backend answer without the key "error"
\* (the formatting of the answer's fields is left out).
FormattedResult == "formatted result"

\* A tool is called: it awaits its one backend request.
ToolCalled(tool_name) ==
    /\ host_pc = "idle"
    /\ host_pc' = "requesting"
    /\ host_tool' = tool_name
    /\ backend_requests' = backend_requests + 1
    /\ UNCHANGED <<host_response, host_text>>

\* The backend answers; the tool returns its text, or the exception of
\* call_*_service leaves the tool.
BackendAnswers(r) ==
    /\ host_pc = "requesting"
    /\ host_response' = r
    /\ LET result == CallService(r)
       IN  IF result.raised
           THEN /\ host_pc' = "raised"
                /\ host_text' = ""
           ELSE /\ host_pc' = "returned"
                /\ host_text' = IF result.has_error
                                THEN ErrorPrefix(host_tool) \o result.error
                                ELSE FormattedResult
    /\ UNCHANGED <<host_tool, backend_requests>>

\* The request fails with an httpx.RequestError (no answer at all).
BackendUnreachable ==
    /\ host_pc = "requesting"
    /\ host_pc' = "returned"
    /\ host_text' = ErrorPrefix(host_tool) \o "Failed to connect to "
                        \o ServiceName(host_tool) \o " service: "
                        \o "All connection attempts failed"
    /\ UNCHANGED <<host_tool, host_response, backend_requests>>

\* The caller has the tool's outcome; the host waits for the next call.
ToolCallOver ==
    /\ host_pc \in {"returned", "raised"}
    /\ host_pc' = "idle"
    /\ host_tool' = "none"
    /\ host_response' = NoBackendResponse
    /\ host_text' = ""
    /\ backend_requests' = 0

InitHost ==
    /\ host_pc = "idle"
    /\ host_tool = "none"
    /\ host_response = NoBackendResponse
    /\ host_text = ""
    /\ backend_requests = 0

\* ------------------------------------------------------------------
\* The airline backend: bookings and seats (services/airline/app.py)
\* ------------------------------------------------------------------

\* Flights of the flights table, and a flight id that is not in it.
Flights == {"FL1", "FL2"}
UnknownFlight == "FL9"

\* FlightDB.total_seats
total_seats(flight_id) == IF flight_id = "FL1" THEN MaxSeats ELSE MaxSeats - 1

\* len(booking_request.passengers)
PassengerCounts == 0..MaxPassengers

\* The sum of len(json.loads(b.passengers_json)) over the rows of index set
\* rows.
RECURSIVE PassengerSum(_, _)
PassengerSum(rows, table) ==
    IF rows = {} THEN 0
    ELSE LET i == CHOOSE j \in rows : TRUE
         IN  table[i].passengers + PassengerSum(rows \ {i}, table)

\* get_seats_available over all rows of the flight, whatever their status.
get_seats_available_AnyStatus(table, flight_id) ==
    IF flight_id \notin Flights THEN 0
    ELSE LET booked == {i \in 1..Len(table) : table[i].flight_id = flight_id}
             booked_seats == PassengerSum(booked, table)
             free == total_seats(flight_id) - booked_seats
         IN  IF free > 0 THEN free ELSE 0

\* get_seats_available
get_seats_available(table, flight_id) ==
    IF flight_id \notin Flights THEN 0
    ELSE LET booked == {i \in 1..Len(table) :
                            /\ table[i].flight_id = flight_id
                            /\ table[i].status = "confirmed"}
             booked_seats == PassengerSum(booked, table)
             free == total_seats(flight_id) - booked_seats
         IN  IF free > 0 THEN free ELSE 0

\* What the backend answered last: the operation, its status code, and the
\* flight and passenger count it was about.
AirReply(op, status_code, flight_id, passengers) ==
    [op |-> op, status_code |-> status_code, flight_id |-> flight_id,
     passengers |-> passengers]

NoAirReply == AirReply("none", 0, "", 0)

\* create_booking without its availability check.
create_booking_NoCheck(flight_id, passengers) ==
    /\ IF flight_id \notin Flights
       THEN /\ air_last' = AirReply("create", 404, flight_id, passengers)
            /\ UNCHANGED <<bookings, air_refused>>
       ELSE /\ Len(bookings) < MaxBookings
            /\ bookings' = Append(bookings, [flight_id |-> flight_id,
                                             passengers |-> passengers,
                                             status |-> "confirmed"])
            /\ air_last' = AirReply("create", 200, flight_id, passengers)
            /\ UNCHANGED air_refused

\* create_booking, as one step: 404 for an unknown flight, 409 when fewer
\* seats are available than passengers asked for, a confirmed row otherwise
\* (while the table has fewer than MaxBookings rows).
create_booking(flight_id, passengers) ==
    /\ IF flight_id \notin Flights
       THEN /\ air_last' = AirReply("create", 404, flight_id, passengers)
            /\ UNCHANGED <<bookings, air_refused>>
       ELSE IF get_seats_available(bookings, flight_id) < passengers
       THEN /\ air_last' = AirReply("create", 409, flight_id, passengers)
            /\ air_refused' = AirReply("create", 409, flight_id, passengers)
            /\ UNCHANGED bookings
       ELSE /\ Len(bookings) < MaxBookings
            /\ bookings' = Append(bookings, [flight_id |-> flight_id,
                                             passengers |-> passengers,
                                             status |-> "confirmed"])
            /\ air_last' = AirReply("create", 200, flight_id, passengers)
            /\ UNCHANGED air_refused

\* cancel_booking, as one step: 404 for an unknown id; the row's status is
\* set to cancelled otherwise, whatever it was.
cancel_booking(booking_id) ==
    /\ IF booking_id \notin 1..Len(bookings)
       THEN /\ air_last' = AirReply("cancel", 404, "", 0)
            /\ UNCHANGED bookings
       ELSE /\ bookings' = [bookings EXCEPT ![booking_id].status = "cancelled"]
            /\ air_last' = AirReply("cancel", 200, bookings[booking_id].flight_id,
                                    bookings[booking_id].passengers)
    /\ UNCHANGED air_refused

InitAir ==
    /\ bookings = <<>>
    /\ air_last = NoAirReply
    /\ air_refused = NoAirReply

\* ------------------------------------------------------------------
\* The car-rental backend: rentals of a vehicle (services/car-rental/app.py)
\* ------------------------------------------------------------------

\* Vehicles of the vehicles table, and a vehicle id that is not in it.
Vehicles == {"V1", "V2"}
UnknownVehicle == "V9"

\* Dates, as day numbers.
Days == 1..MaxDay

\* get_vehicle_availability with the two dates of the request exchanged.
get_vehicle_availability_Swapped(table, vehicle_id, pickup_date, dropoff_date) ==
    LET overlapping == {i \in 1..Len(table) :
                           /\ table[i].vehicle_id = vehicle_id
                           /\ table[i].status \in {"confirmed", "active"}
                           /\ table[i].pickup_date < pickup_date
                           /\ table[i].dropoff_date > dropoff_date}
    IN  Cardinality(overlapping) = 0

\* get_vehicle_availability
get_vehicle_availability(table, vehicle_id, pickup_date, dropoff_date) ==
    LET overlapping == {i \in 1..Len(table) :
                           /\ table[i].vehicle_id = vehicle_id
                           /\ table[i].status \in {"confirmed", "active"}
                           /\ table[i].pickup_date < dropoff_date
                           /\ table[i].dropoff_date > pickup_date}
    IN  Cardinality(overlapping) = 0

\* What the backend answered last: the operation and its status code.
CarReply(op, status_code) == [op |-> op, status_code |-> status_code]

NoCarReply == CarReply("none", 0)

\* create_rental, as one step: 404 for an unknown vehicle, 400 for a dropoff
\* date not after the pickup date, 409 when the vehicle is not available,
\* 404 for an unknown location (locations_found is false), a confirmed row
\* otherwise (while the table has fewer than MaxRentals rows).
create_rental(vehicle_id, pickup_date, dropoff_date, locations_found) ==
    IF vehicle_id \notin Vehicles
    THEN car_last' = CarReply("create", 404) /\ UNCHANGED rentals
    ELSE IF dropoff_date <= pickup_date
    THEN car_last' = CarReply("create", 400) /\ UNCHANGED rentals
    ELSE IF ~get_vehicle_availability(rentals, vehicle_id, pickup_date, dropoff_date)
    THEN car_last' = CarReply("create", 409) /\ UNCHANGED rentals
    ELSE IF ~locations_found
    THEN car_last' = CarReply("create", 404) /\ UNCHANGED rentals
    ELSE /\ Len(rentals) < MaxRentals
         /\ rentals' = Append(rentals, [vehicle_id |-> vehicle_id,
                                        pickup_date |-> pickup_date,
                                        dropoff_date |-> dropoff_date,
                                        status |-> "confirmed"])
         /\ car_last' = CarReply("create", 200)

\* cancel_rental, as one step: 404 for an unknown id; the row's status is
\* set to cancelled otherwise.
cancel_rental(rental_id) ==
    IF rental_id \notin 1..Len(rentals)
    THEN car_last' = CarReply("cancel", 404) /\ UNCHANGED rentals
    ELSE /\ rentals' = [rentals EXCEPT ![rental_id].status = "cancelled"]
         /\ car_last' = CarReply("cancel", 200)

InitCar ==
    /\ rentals = <<>>
    /\ car_last = NoCarReply

InitBackend == InitAir /\ InitCar

InitSide == InitDemo /\ InitHost /\ InitBackend

\* ------------------------------------------------------------------
\* Specifications
\* ------------------------------------------------------------------

vars == <<clientVars, requestVars, routerVars, decodeVars, frontVars, sideVars>>

\* Concurrent call_tool invocations of one agent against its tool host.
Init ==
    /\ agent \in Agents
    /\ llm = FALSE
    /\ InitClient
    /\ InitRequest
    /\ InitRouter
    /\ InitDecode
    /\ InitFront
    /\ InitSide

Next ==
    \/ \E p \in Tasks :
          CallToolEnter(p, DefaultTool(agent)) /\ UNCHANGED <<requestVars, routerVars, decodeVars, frontVars, sideVars>>
    \/ \E p \in Tasks : InitReplySession(p) /\ UNCHANGED <<requestVars, routerVars, decodeVars, frontVars, sideVars>>
    \/ \E p \in Tasks : InitReplyNoHeader(p) /\ UNCHANGED <<requestVars, routerVars, decodeVars, frontVars, sideVars>>
    \/ \E p \in Tasks : InitReplyException(p) /\ UNCHANGED <<requestVars, routerVars, decodeVars, frontVars, sideVars>>
    \/ \E p \in Tasks, b \in Bodies : CallReplyOk(p, b) /\ UNCHANGED <<requestVars, routerVars, decodeVars, frontVars, sideVars>>
    \/ \E p \in Tasks : CallReplyExpired(p) /\ UNCHANGED <<requestVars, routerVars, decodeVars, frontVars, sideVars>>
    \/ \E p \in Tasks : CallReplyFailed(p) /\ UNCHANGED <<requestVars, routerVars, decodeVars, frontVars, sideVars>>
    \/ \E p \in Tasks : CallReplyException(p) /\ UNCHANGED <<requestVars, routerVars, decodeVars, frontVars, sideVars>>
    \/ \E p \in Tasks : CallToolDone(p) /\ UNCHANGED <<requestVars, routerVars, decodeVars, frontVars, sideVars>>
    \/ HostExpire /\ UNCHANGED <<requestVars, routerVars, decodeVars, frontVars, sideVars>>

Spec == Init /\ [][Next]_vars

\* An awaited exchange of task p that has not been answered raises when the
\* client's timeout (httpx.AsyncClient(timeout=60.0)) runs out.
ExchangeTimeout(p) ==
    /\ InitReplyException(p) \/ CallReplyException(p)
    /\ UNCHANGED <<requestVars, routerVars, decodeVars, frontVars, sideVars>>

\* The airline agent's concurrent client, in which no exchange outlasts the
\* client's timeout.
InitAirline ==
    /\ agent = "airline"
    /\ llm = FALSE
    /\ InitClient
    /\ InitRequest
    /\ InitRouter
    /\ InitDecode
    /\ InitFront
    /\ InitSide

FairSpec ==
    /\ InitAirline
    /\ [][Next]_vars
    /\ \A p \in Tasks : WF_vars(ExchangeTimeout(p))

RequestTasks == {1}

\* One call_tool at a time, its answer drawn from every body the decoder
\* distinguishes.
NextDecode ==
    \/ \E p \in RequestTasks :
          CallToolEnter(p, DefaultTool(agent)) /\ UNCHANGED <<requestVars, routerVars, decodeVars, frontVars, sideVars>>
    \/ \E p \in RequestTasks : InitReplySession(p) /\ UNCHANGED <<requestVars, routerVars, decodeVars, frontVars, sideVars>>
    \/ \E p \in RequestTasks : InitReplyNoHeader(p) /\ UNCHANGED <<requestVars, routerVars, decodeVars, frontVars, sideVars>>
    \/ \E p \in RequestTasks : InitReplyException(p) /\ UNCHANGED <<requestVars, routerVars, decodeVars, frontVars, sideVars>>
    \/ \E p \in RequestTasks, b \in DecodeBodies :
          DecodeReply(p, b) /\ UNCHANGED <<requestVars, routerVars, frontVars, sideVars>>
    \/ \E p \in RequestTasks : CallReplyExpired(p) /\ UNCHANGED <<requestVars, routerVars, decodeVars, frontVars, sideVars>>
    \/ \E p \in RequestTasks : CallReplyFailed(p) /\ UNCHANGED <<requestVars, routerVars, decodeVars, frontVars, sideVars>>
    \/ \E p \in RequestTasks : CallReplyException(p) /\ UNCHANGED <<requestVars, routerVars, decodeVars, frontVars, sideVars>>
    \/ \E p \in RequestTasks : DecodeDone(p) /\ UNCHANGED <<requestVars, routerVars, frontVars, sideVars>>
    \/ HostExpire /\ UNCHANGED <<requestVars, routerVars, decodeVars, frontVars, sideVars>>

SpecDecode == Init /\ [][NextDecode]_vars

\* One specialist agent serving requests one at a time: process_request,
\* and call_tool called directly.
InitAgent ==
    /\ agent \in Agents
    /\ llm \in BOOLEAN
    /\ InitClient
    /\ InitRequest
    /\ InitRouter
    /\ InitDecode
    /\ InitFront
    /\ InitSide

NextAgent ==
    \/ \E p \in RequestTasks, m \in Messages, c \in Contexts :
          ProcessRequestStart(p, m, c) /\ UNCHANGED <<routerVars, decodeVars, frontVars, sideVars>>
    \/ \E p \in RequestTasks :
          ProcessRequestToolReturn(p) /\ UNCHANGED <<routerVars, decodeVars, frontVars, sideVars>>
    \/ ProcessRequestLlmText /\ UNCHANGED <<routerVars, decodeVars, frontVars, sideVars>>
    \/ \E e \in LlmErrors : ProcessRequestLlmRaise(e) /\ UNCHANGED <<routerVars, decodeVars, frontVars, sideVars>>
    \/ ProcessRequestDone /\ UNCHANGED <<routerVars, decodeVars, frontVars, sideVars>>
    \/ \E p \in RequestTasks, t \in ToolInputs :
          rpc = "idle" /\ CallToolEnter(p, t) /\ UNCHANGED <<requestVars, routerVars, decodeVars, frontVars, sideVars>>
    \/ \E p \in RequestTasks :
          rpc = "idle" /\ CallToolDone(p) /\ UNCHANGED <<requestVars, routerVars, decodeVars, frontVars, sideVars>>
    \/ \E p \in RequestTasks : InitReplySession(p) /\ UNCHANGED <<requestVars, routerVars, decodeVars, frontVars, sideVars>>
    \/ \E p \in RequestTasks : InitReplyNoHeader(p) /\ UNCHANGED <<requestVars, routerVars, decodeVars, frontVars, sideVars>>
    \/ \E p \in RequestTasks : InitReplyException(p) /\ UNCHANGED <<requestVars, routerVars, decodeVars, frontVars, sideVars>>
    \/ \E p \in RequestTasks, b \in Bodies :
          CallReplyOk(p, b) /\ UNCHANGED <<requestVars, routerVars, decodeVars, frontVars, sideVars>>
    \/ \E p \in RequestTasks : CallReplyExpired(p) /\ UNCHANGED <<requestVars, routerVars, decodeVars, frontVars, sideVars>>
    \/ \E p \in RequestTasks : CallReplyFailed(p) /\ UNCHANGED <<requestVars, routerVars, decodeVars, frontVars, sideVars>>
    \/ \E p \in RequestTasks : CallReplyException(p) /\ UNCHANGED <<requestVars, routerVars, decodeVars, frontVars, sideVars>>
    \/ HostExpire /\ UNCHANGED <<requestVars, routerVars, decodeVars, frontVars, sideVars>>

SpecAgent == InitAgent /\ [][NextAgent]_vars

\* A supervisor serving one routing request at a time.
InitSupervisor ==
    /\ agent = "airline"
    /\ llm = FALSE
    /\ InitClient
    /\ InitRequest
    /\ InitRouter
    /\ InitDecode
    /\ InitFront
    /\ InitSide

NextRouter ==
    \/ \E q \in Queries, n \in 0..MaxIter :
          ProcessQuery(q, n) /\ UNCHANGED <<clientVars, requestVars, decodeVars, frontVars, sideVars>>
    \/ \E r \in AgentResults :
          ServiceAgentReturns(r) /\ UNCHANGED <<clientVars, requestVars, decodeVars, frontVars, sideVars>>
    \/ ServiceAgentRaises /\ UNCHANGED <<clientVars, requestVars, decodeVars, frontVars, sideVars>>
    \/ \E q \in Queries, n \in 0..MaxIter :
          RouteAndExecute(q, n) /\ UNCHANGED <<clientVars, requestVars, decodeVars, frontVars, sideVars>>
    \/ \E t \in RouteTargets :
          RouteDecision(t) /\ UNCHANGED <<clientVars, requestVars, decodeVars, frontVars, sideVars>>
    \/ \E r \in AgentResults :
          LegacyAgentReturns(r) /\ UNCHANGED <<clientVars, requestVars, decodeVars, frontVars, sideVars>>
    \/ \E t \in RouteTargets :
          CheckContinuation(t) /\ UNCHANGED <<clientVars, requestVars, decodeVars, frontVars, sideVars>>
    \/ \E x \in SynthesisTexts :
          LegacySynthesized(x) /\ UNCHANGED <<clientVars, requestVars, decodeVars, frontVars, sideVars>>
    \/ LegacyRaises /\ UNCHANGED <<clientVars, requestVars, decodeVars, frontVars, sideVars>>
    \/ RouterDone /\ UNCHANGED <<clientVars, requestVars, decodeVars, frontVars, sideVars>>

SpecRouter == InitSupervisor /\ [][NextRouter]_vars

\* The single-call routers serving one request at a time.
NextFront ==
    \/ \E m \in FrontMessages, use_llm \in BOOLEAN, h \in BOOLEAN :
          SupervisorProcessRequest(m, use_llm, h) /\ UNCHANGED <<clientVars, requestVars, decodeVars, sideVars>>
    \/ \E x \in LlmIntents :
          SupervisorClassified(x) /\ UNCHANGED <<clientVars, requestVars, decodeVars, sideVars>>
    \/ SupervisorClassifyRaises /\ UNCHANGED <<clientVars, requestVars, decodeVars, sideVars>>
    \/ \E ok \in BOOLEAN :
          SupervisorHealthReply(ok) /\ UNCHANGED <<clientVars, requestVars, decodeVars, sideVars>>
    \/ \E j \in AgentJsons :
          SupervisorAgentReplies(j) /\ UNCHANGED <<clientVars, requestVars, decodeVars, sideVars>>
    \/ SupervisorAgentStatus /\ UNCHANGED <<clientVars, requestVars, decodeVars, sideVars>>
    \/ \E e \in TransportErrors :
          SupervisorAgentRaises(e) /\ UNCHANGED <<clientVars, requestVars, decodeVars, sideVars>>
    \/ \E m \in FrontMessages : Chat(m) /\ UNCHANGED <<clientVars, requestVars, decodeVars, sideVars>>
    \/ \E c \in UserContexts, h \in BOOLEAN :
          ChatContext(c, h) /\ UNCHANGED <<clientVars, requestVars, decodeVars, sideVars>>
    \/ \E ok \in BOOLEAN : ChatTripReply(ok) /\ UNCHANGED <<clientVars, requestVars, decodeVars, sideVars>>
    \/ \E ok \in BOOLEAN : ChatHealthReply(ok) /\ UNCHANGED <<clientVars, requestVars, decodeVars, sideVars>>
    \/ \E j \in AgentJsons :
          ChatAgentReplies(j) /\ UNCHANGED <<clientVars, requestVars, decodeVars, sideVars>>
    \/ ChatAgentStatus /\ UNCHANGED <<clientVars, requestVars, decodeVars, sideVars>>
    \/ \E e \in TransportErrors :
          ChatAgentRaises(e) /\ UNCHANGED <<clientVars, requestVars, decodeVars, sideVars>>
    \/ FrontDone /\ UNCHANGED <<clientVars, requestVars, decodeVars, sideVars>>

SpecFront == InitSupervisor /\ [][NextFront]_vars

\* The supervisor service alone, max_iterations up to its default.
NextService ==
    \/ \E q \in Queries, n \in 0..DefaultIterations :
          ProcessQuery(q, n) /\ UNCHANGED <<clientVars, requestVars, decodeVars, frontVars, sideVars>>
    \/ \E r \in AgentResults :
          ServiceAgentReturns(r) /\ UNCHANGED <<clientVars, requestVars, decodeVars, frontVars, sideVars>>
    \/ ServiceAgentRaises /\ UNCHANGED <<clientVars, requestVars, decodeVars, frontVars, sideVars>>
    \/ /\ rt_impl = "service"
       /\ RouterDone
       /\ UNCHANGED <<clientVars, requestVars, decodeVars, frontVars, sideVars>>

SpecService == InitSupervisor /\ [][NextService]_vars

\* The supervisor service and the single-call routers, one request at a
\* time.
NextRouting == NextService \/ NextFront

SpecRouting == InitSupervisor /\ [][NextRouting]_vars

\* An awaited exchange of a router that has not been answered fails when its
\* client's timeout runs out (httpx.AsyncClient(timeout=...) in every
\* router), and the handler goes on as it does after any failed exchange.
RouterTimeout ==
    /\ \/ ServiceAgentRaises /\ UNCHANGED frontVars
       \/ SupervisorClassifyRaises
       \/ SupervisorHealthReply(FALSE)
       \/ \E e \in TransportErrors : SupervisorAgentRaises(e)
       \/ \E h \in BOOLEAN : ChatContext(NoContext, h)
       \/ ChatTripReply(FALSE)
       \/ ChatHealthReply(FALSE)
       \/ \E e \in TransportErrors : ChatAgentRaises(e)
    /\ UNCHANGED <<clientVars, requestVars, decodeVars, sideVars>>

\* The routers, in which no exchange outlasts its timeout.
FairRouting == SpecRouting /\ WF_vars(RouterTimeout)

\* chat in front of the airline agent: the POST to /invoke runs the agent's
\* process_request on the message, with the context call_agent builds (the
\* trip when there is an active one, the default {} otherwise), and its
\* AgentResponse is the JSON chat receives.
InvokeProcess ==
    /\ rt_impl = "planner"
    /\ rt_pc = "calling"
    /\ rt_agent = agent
    /\ ProcessRequestStart(1, query,
                           IF rt_context = "active_trip"
                           THEN Context({"trip"}) ELSE Context({}))
    /\ UNCHANGED <<routerVars, decodeVars, frontVars, sideVars>>

InvokeReturns ==
    /\ rt_impl = "planner"
    /\ rt_pc = "calling"
    /\ rpc = "responded"
    /\ ChatAfterAgent(CallAgentResult(response))
    /\ ProcessRequestDone
    /\ UNCHANGED <<rt_impl, query, max_iterations, iteration, conversation_history,
                   rt_agent, rt_calls, rt_complete, rt_healthy, rt_context,
                   classified, decodeVars, sideVars>>

NextScenario ==
    \/ \E m \in FrontMessages :
          Chat(m) /\ UNCHANGED <<clientVars, requestVars, decodeVars, sideVars>>
    \/ \E c \in UserContexts, h \in BOOLEAN :
          ChatContext(c, h) /\ UNCHANGED <<clientVars, requestVars, decodeVars, sideVars>>
    \/ \E ok \in BOOLEAN :
          ChatTripReply(ok) /\ UNCHANGED <<clientVars, requestVars, decodeVars, sideVars>>
    \/ \E ok \in BOOLEAN :
          ChatHealthReply(ok) /\ UNCHANGED <<clientVars, requestVars, decodeVars, sideVars>>
    \/ \E j \in AgentJsons :
          /\ rt_agent # agent
          /\ ChatAgentReplies(j)
          /\ UNCHANGED <<clientVars, requestVars, decodeVars, sideVars>>
    \/ \E e \in TransportErrors :
          /\ rpc = "idle"
          /\ ChatAgentRaises(e)
          /\ UNCHANGED <<clientVars, requestVars, decodeVars, sideVars>>
    \/ FrontDone /\ UNCHANGED <<clientVars, requestVars, decodeVars, sideVars>>
    \/ InvokeProcess
    \/ InvokeReturns
    \/ \E p \in RequestTasks :
          ProcessRequestToolReturn(p) /\ UNCHANGED <<routerVars, decodeVars, frontVars, sideVars>>
    \/ \E p \in RequestTasks : InitReplySession(p) /\ UNCHANGED <<requestVars, routerVars, decodeVars, frontVars, sideVars>>
    \/ \E p \in RequestTasks : InitReplyNoHeader(p) /\ UNCHANGED <<requestVars, routerVars, decodeVars, frontVars, sideVars>>
    \/ \E p \in RequestTasks : InitReplyException(p) /\ UNCHANGED <<requestVars, routerVars, decodeVars, frontVars, sideVars>>
    \/ \E p \in RequestTasks, b \in Bodies :
          CallReplyOk(p, b) /\ UNCHANGED <<requestVars, routerVars, decodeVars, frontVars, sideVars>>
    \/ \E p \in RequestTasks : CallReplyExpired(p) /\ UNCHANGED <<requestVars, routerVars, decodeVars, frontVars, sideVars>>
    \/ \E p \in RequestTasks : CallReplyFailed(p) /\ UNCHANGED <<requestVars, routerVars, decodeVars, frontVars, sideVars>>
    \/ \E p \in RequestTasks : CallReplyException(p) /\ UNCHANGED <<requestVars, routerVars, decodeVars, frontVars, sideVars>>
    \/ HostExpire /\ UNCHANGED <<requestVars, routerVars, decodeVars, frontVars, sideVars>>

SpecScenario == InitAirline /\ [][NextScenario]_vars

\* The sidecar-wrapped LLM agents of the demo, one run at a time.
NextDemo ==
    \/ \E a \in DemoAgents :
          DemoRun(a) /\ UNCHANGED <<clientVars, requestVars, routerVars, decodeVars, frontVars, hostVars, backendVars>>
    \/ \E calls \in ToolCallLists :
          DemoLlmReplies(calls) /\ UNCHANGED <<clientVars, requestVars, routerVars, decodeVars, frontVars, hostVars, backendVars>>
    \/ DemoFinalReply /\ UNCHANGED <<clientVars, requestVars, routerVars, decodeVars, frontVars, hostVars, backendVars>>
    \/ DemoNext /\ UNCHANGED <<clientVars, requestVars, routerVars, decodeVars, frontVars, hostVars, backendVars>>

SpecDemo == Init /\ [][NextDemo]_vars

\* classify_intent called on its own, one call after another.
NextIntent ==
    \E m \in IntentMessages, c \in UserContexts :
        ClassifyIntentCall(m, c) /\ UNCHANGED <<clientVars, requestVars, routerVars, decodeVars, sideVars>>

SpecIntent == InitSupervisor /\ [][NextIntent]_vars

\* The tools of the tool hosts, one call at a time.
NextHost ==
    \/ \E t \in HostTools :
          ToolCalled(t) /\ UNCHANGED <<clientVars, requestVars, routerVars, decodeVars, frontVars, demoVars, backendVars>>
    \/ \E r \in BackendResponses :
          BackendAnswers(r) /\ UNCHANGED <<clientVars, requestVars, routerVars, decodeVars, frontVars, demoVars, backendVars>>
    \/ BackendUnreachable /\ UNCHANGED <<clientVars, requestVars, routerVars, decodeVars, frontVars, demoVars, backendVars>>
    \/ ToolCallOver /\ UNCHANGED <<clientVars, requestVars, routerVars, decodeVars, frontVars, demoVars, backendVars>>

SpecHost == Init /\ [][NextHost]_vars

\* The airline backend, one request handler at a time.
NextAir ==
    \/ \E f \in Flights \cup {UnknownFlight}, n \in PassengerCounts :
          create_booking(f, n) /\ UNCHANGED <<clientVars, requestVars, routerVars, decodeVars, frontVars, demoVars, hostVars, carVars>>
    \/ \E b \in 1..(MaxBookings + 1) :
          cancel_booking(b) /\ UNCHANGED <<clientVars, requestVars, routerVars, decodeVars, frontVars, demoVars, hostVars, carVars>>

SpecAir == InitAirline /\ [][NextAir]_vars

\* The car-rental backend, one request handler at a time.
NextCar ==
    \/ \E v \in Vehicles \cup {UnknownVehicle}, p \in Days, d \in Days, l \in BOOLEAN :
          create_rental(v, p, d, l) /\ UNCHANGED <<clientVars, requestVars, routerVars, decodeVars, frontVars, demoVars, hostVars, airVars>>
    \/ \E r \in 1..(MaxRentals + 1) :
          cancel_rental(r) /\ UNCHANGED <<clientVars, requestVars, routerVars, decodeVars, frontVars, demoVars, hostVars, airVars>>

SpecCar == InitAirline /\ [][NextCar]_vars

\* ------------------------------------------------------------------
\* Properties
\* ------------------------------------------------------------------

\* C1: a call_tool for a tool outside the agent's catalog sends no request
\* to the tool host (neither initialize nor tools/call) and returns the
\* PolicyDenied failure.
C1_OutOfCatalogCallDenied ==
    \A p \in Tasks :
        (tool[p] # NoTool /\ tool[p] \notin ToolNames(agent)) =>
            /\ nInit[p] = 0
            /\ nCall[p] = 0
            /\ pc[p] = "done" => ret[p] = Error("PolicyDenied")

\* C2: a call_tool that began with a session token stored and was answered
\* with the expiry signal (400) returns a success, after exactly one
\* re-initialization and one re-sent tools/call.
C2_ExpiredCallRecovers ==
    \A p \in Tasks :
        (pc[p] = "done" /\ active[p] /\ "400" \in Range(outcomes[p])) =>
            /\ ret[p].kind = "value"
            /\ nInit[p] = 1
            /\ nCall[p] = 2

\* C7: an expiry answer to a tools/call that was sent with another token
\* than the one now stored leaves the stored token in place.
C7_StaleExpiryKeepsFreshToken ==
    [][\A p \in Tasks :
          (/\ pc[p] = "call_wait"
           /\ pc'[p] = "done"
           /\ outcomes'[p][Len(outcomes'[p])] = "400"
           /\ sent[p] # NoSession
           /\ mcp_session_id # NoSession
           /\ sent[p] # mcp_session_id)
          => mcp_session_id' = mcp_session_id]_vars

\* C8: the tool host never holds more than one live session of the agent.
C8_AtMostOneLiveSession == Cardinality(hostLive) <= 1

\* C9: an invocation of call_tool sends at most one initialize request and
\* at most two tools/call requests, the second only after the first was
\* answered with the expiry signal.
C9_BoundedRequests ==
    \A p \in Tasks :
        /\ nInit[p] <= 1
        /\ nCall[p] <= 2
        /\ nCall[p] = 2 => (outcomes[p] # <<>> /\ outcomes[p][1] = "400")

\* An invocation that initialized, sent its tools/call once, met a transport
\* error and returned.
C9_Witness ==
    \E p \in Tasks :
        /\ pc[p] = "done"
        /\ outcomes[p] = <<"exception">>
        /\ nInit[p] = 1
        /\ nCall[p] = 1
        /\ ret[p].kind = "error"

\* C10: every tools/call request in flight carries a session token.
C10_ToolsCallCarriesSession ==
    \A p \in Tasks : pc[p] = "call_wait" => sent[p] # NoSession

\* C3: a routing request whose input never meets a completion condition
\* ends after exactly max_iterations specialist calls with a synthesized
\* response, and no request makes more than max_iterations calls.
C3_ExactlyMaxIterationsCalls ==
    /\ rt_calls <= max_iterations
    /\ (rt_pc = "responded" /\ ~rt_complete) =>
          /\ rt_calls = max_iterations
          /\ rt_response.kind \in {"synthesized", "unable"}

\* C4: a process_request whose tool call ended in an error (a transport
\* error, a non-200 status, an error envelope) answers success = false with
\* a populated error.
C4_ToolFailureReported ==
    (rpc = "responded" /\ response.data.kind = "error") =>
        /\ ~response.success
        /\ response.error # None
        /\ response.error # Some("")

\* C5: every routing request ends in synthesis, with each specialist call
\* made for it, failed or not, recorded as a turn.
C5_FailureRecordedAndSynthesized ==
    rt_pc = "responded" =>
        /\ rt_response.kind \in {"synthesized", "unable"}
        /\ Len(conversation_history) = rt_calls

\* Words that name the tools of the other domains.
ForeignWords(d) ==
    CASE d = "airline"    -> {"hotel", "vehicle", "rental"}
      [] d = "hotel"      -> {"flight", "airport", "vehicle", "rental"}
      [] d = "car_rental" -> {"flight", "airport", "hotel"}

\* C6: the catalog of the agent shares no tool name with the catalog of
\* another domain and holds no tool named after another domain.
C6_CatalogsIsolated ==
    /\ \A d \in Agents \ {agent} : ToolNames(agent) \cap ToolNames(d) = {}
    /\ \A t \in ToolNames(agent) : ~AnyWord(Lower(t), ForeignWords(agent))
    /\ Cardinality(ToolNames(agent)) = Len(AgentTools(agent))

\* The hotel agent has answered a request by calling a tool of its catalog.
C6_Witness ==
    /\ agent = "hotel"
    /\ rpc = "responded"
    /\ response.tools_called # <<>>
    /\ response.tools_called[1] \in ToolNames("hotel")


\* C11: the client has no permanent failure state.  Whatever happened
\* before, a call_tool that finds no session token sends initialize; when the
\* tool host answers that initialize with a session, the token is stored and
\* the tools/call is posted with it; and every invocation that is waiting
\* for an exchange returns.
C11_NoPermanentFailure ==
    /\ [][\A p \in Tasks :
            /\ (pc[p] = "idle" /\ pc'[p] # "idle" /\ mcp_session_id = NoSession) =>
                  (pc'[p] = "init_wait" /\ nInit'[p] = 1 /\ nCall'[p] = 0)
            /\ (pc[p] = "init_wait" /\ pc'[p] # "init_wait" /\ hostIssued' # hostIssued) =>
                  /\ mcp_session_id' # NoSession
                  /\ mcp_session_id' \in hostLive'
                  /\ pc'[p] = "call_wait"
                  /\ sent'[p] = mcp_session_id']_vars
    /\ \A p \in Tasks : (pc[p] \in {"init_wait", "call_wait"}) ~> (pc[p] = "done")

\* One invocation initialized without obtaining a session and was answered
\* 400; afterwards another, which also began without a token, obtained the
\* host's only session and returned a payload.
C11_Witness ==
    \E p, q \in Tasks :
        /\ p # q
        /\ pc[p] = "done" /\ nInit[p] = 1 /\ outcomes[p] = <<"400">>
        /\ pc[q] = "done" /\ nInit[q] = 1 /\ ~active[q]
        /\ ret[q].kind = "value"
        /\ hostIssued = 1 /\ mcp_session_id = 1


\* C12: a tools/call outcome other than the expiry signal (a status other
\* than 200 and 400, a transport exception, or a 200 answer carrying an error
\* envelope) makes call_tool return an error and leaves the stored session
\* token as it was.
C12_OtherErrorsKeepSession ==
    [][\A p \in Tasks :
         LET st == outcomes'[p][Len(outcomes'[p])]
             ErrorEnvelopeBodies ==
                 {"event: message\ndata: {\"error\": {\"message\": \"flight not found\"}}\n\n",
                  "event: message\ndata: {\"error\": {\"code\": -32602}}\n\n",
                  "{\"error\": {\"message\": \"flight not found\"}}"}
         IN (/\ pc[p] = "call_wait"
             /\ pc'[p] = "done"
             /\ \/ st \in {"500", "exception"}
                \/ st = "200" /\ reply_body' \in ErrorEnvelopeBodies)
            => /\ ret'[p].kind = "error"
               /\ mcp_session_id' = mcp_session_id]_vars

\* C13: the event stream 'event: message / data: {"result": 42}' decodes to
\* the payload 42, and an event stream without a data: line decodes to the
\* "no data" error.
C13_SseRoundTrip ==
    \A p \in Tasks :
        (pc[p] = "done" /\ outcomes[p][Len(outcomes[p])] = "200") =>
            /\ reply_body = "event: message\ndata: {\"result\": 42}\n\n"
                  => ret[p] = Value("42")
            /\ reply_body = "event: message\n\n"
                  => (ret[p].kind = "error" /\ Contains(Lower(ret[p].text), "no data"))

C13_Witness ==
    \E p \in Tasks :
        /\ pc[p] = "done"
        /\ reply_body = "event: message\ndata: {\"result\": 42}\n\n"
        /\ ret[p] = Value("42")

\* C14: of several data: lines in an event stream, the last one is decoded.
C14_LastDataLineWins ==
    \A p \in Tasks :
        (/\ pc[p] = "done"
         /\ outcomes[p][Len(outcomes[p])] = "200"
         /\ reply_body = "event: message\ndata: {\"result\": 1}\n\nevent: message\ndata: {\"result\": 2}\n\n")
        => ret[p] = Value("2")

\* C15: in both forms the decoded envelope yields its result member if it
\* has one, otherwise the message under error.message if it has one,
\* otherwise the decoded object itself.
C15_EnvelopePrecedence ==
    \A p \in Tasks :
        LET payload ==
              CASE reply_body = "event: message\ndata: {\"result\": 42}\n\n" -> "{\"result\": 42}"
                [] reply_body = "{\"result\": 42}" -> "{\"result\": 42}"
                [] reply_body = "event: message\ndata: {\"error\": {\"message\": \"flight not found\"}}\n\n"
                     -> "{\"error\": {\"message\": \"flight not found\"}}"
                [] reply_body = "{\"error\": {\"message\": \"flight not found\"}}"
                     -> "{\"error\": {\"message\": \"flight not found\"}}"
                [] reply_body = "event: message\ndata: {\"jsonrpc\": \"2.0\"}\n\n" -> "{\"jsonrpc\": \"2.0\"}"
                [] reply_body = "{\"jsonrpc\": \"2.0\"}" -> "{\"jsonrpc\": \"2.0\"}"
                [] OTHER -> ""
            envelope == JsonLoads(payload)
        IN (pc[p] = "done" /\ outcomes[p][Len(outcomes[p])] = "200" /\ payload # "") =>
              ret[p] = IF envelope.has_result THEN Value(envelope.result)
                       ELSE IF envelope.has_error /\ envelope.has_message
                            THEN Error(envelope.message)
                       ELSE Value(payload)


\* C16: every response with success = false, of a specialist agent or of a
\* router, carries an error that is neither absent nor the empty string.
C16_FailureCarriesError ==
    /\ (rpc = "responded" /\ ~response.success) => Truthy(response.error)
    /\ (rt_pc = "responded" /\ rt_impl \in {"supervisor", "planner"}
          /\ ~rt_response.success) => Truthy(rt_response.error)

\* C17: every request to a router is answered, never by an uncaught
\* failure, and the answer is built from the turns gathered: in the
\* supervisor service, from the last turn whenever there is one.
C17_AlwaysAResponse ==
    /\ [](rt_pc = "responded" =>
            /\ rt_response.kind # "raised"
            /\ (rt_impl = "service" /\ conversation_history # <<>>) =>
                  /\ rt_response.kind = "synthesized"
                  /\ rt_response.result =
                       conversation_history[Len(conversation_history)].result)
    /\ (rt_pc \notin {"idle", "responded"}) ~> (rt_pc = "responded")

\* C18: with max_iterations = 5, five iterations that each gathered a turn
\* without completing are followed by synthesis at iteration 5, and the
\* output is not empty.
C18_SynthesisAtFive ==
    (/\ rt_pc = "responded"
     /\ max_iterations = 5
     /\ Len(conversation_history) = 5
     /\ ~rt_complete)
    => /\ rt_response.kind = "synthesized"
       /\ rt_response.iterations = 5
       /\ rt_response.result # ""

\* C19: once a specialist call has returned a result, the router calls no
\* specialist again for that request (an empty result is taken for a
\* reported failure).
C19_OneCallSuffices ==
    /\ rt_impl \in {"supervisor", "planner"} => rt_calls <= 1
    /\ (rt_impl = "service" /\ rt_pc = "calling") =>
          \A i \in 1..Len(conversation_history) : conversation_history[i].result = ""

\* C20: chat calls no specialist for a query-itinerary or create-trip
\* intent, whatever the domain; it calls one only for the other intents, and
\* only the specialist the classified domain names.
C20_DirectIntentsCallNoAgent ==
    (rt_impl = "planner" /\ rt_pc \notin {"idle", "context_wait"}) =>
        LET intent == ClassifyIntent(query, rt_context) IN
        /\ intent.type \in {"query_itinerary", "create_trip"} =>
              /\ rt_calls = 0
              /\ rt_pc \notin {"calling", "health_wait"}
              /\ rt_pc = "responded" => rt_response.agent_used = None
        /\ rt_calls > 0 =>
              /\ intent.type \notin {"query_itinerary", "create_trip"}
              /\ intent.domain \in {"airline", "hotel", "car-rental"}
              /\ rt_agent = intent.domain

\* A booking request for a flight with no active trip is classified
\* create-trip with domain airline, and was answered without an agent call.
C20_Witness ==
    /\ rt_impl = "planner"
    /\ rt_pc = "responded"
    /\ ClassifyIntent(query, rt_context) = [type |-> "create_trip", domain |-> "airline"]
    /\ rt_calls = 0
    /\ rt_response.success

\* C21: a request chat classifies with domain multi (and does not answer
\* directly as an itinerary query or a trip creation) has its specialists
\* processed in the order airline, hotel, car-rental: specialists are
\* called, and the first one called is the airline agent.
C21_MultiFixedOrder ==
    (rt_impl = "planner" /\ rt_pc = "responded"
       /\ ClassifyIntent(query, rt_context).domain = "multi"
       /\ ClassifyIntent(query, rt_context).type \notin {"query_itinerary", "create_trip"})
    => /\ rt_calls > 0
       /\ rt_agent = "airline"

\* C22: a request whose domain the router cannot determine (no routing
\* keyword in the supervisor service, intent unknown in the supervisor,
\* domain none or multi in chat once the direct intents are past) is
\* answered by a prompt with no error mark, and no specialist is called.
C22_AmbiguousIsPrompt ==
    /\ (rt_impl = "service" /\ SimpleRoute(query, <<"turn">>) = "complete") =>
          /\ rt_calls = 0
          /\ rt_pc = "responded" => rt_response.kind = "unable"
    /\ (rt_impl = "supervisor" /\ rt_pc = "responded" /\ rt_agent = "none") =>
          /\ rt_calls = 0
          /\ rt_response.success
          /\ rt_response.error = None
    /\ (rt_impl = "planner" /\ rt_pc = "responded"
          /\ ClassifyIntent(query, rt_context).domain \in {"none", "multi"}
          /\ ClassifyIntent(query, rt_context).type \notin {"query_itinerary", "create_trip"}) =>
          /\ rt_calls = 0
          /\ rt_response.success
          /\ rt_response.error = None

\* C23: chat issues an append-itinerary-item call exactly when the
\* specialist call of an add-to-trip request with an active trip returned a
\* successful booking: one call then, none in any other case.
C23_AppendAfterBooking ==
    (rt_impl = "planner" /\ rt_pc = "responded") =>
        LET booked ==
              /\ "success" \in DOMAIN rt_result
              /\ rt_result.success
              /\ ~Truthy(rt_result.error)
              /\ \E i \in 1..Len(rt_result.tools_called) :
                     StartsWith(rt_result.tools_called[i], "book_")
              /\ ClassifyIntent(query, rt_context).type = "add_to_trip"
              /\ rt_context = "active_trip"
        IN  rt_appends = (IF booked THEN 1 ELSE 0)

C25_OnlyPermittedToolsRun ==
    /\ \A i \in 1..Len(demo_executed) :
          demo_executed[i] \in AGENT_PERMISSIONS[demo_agent]
    /\ Len(tool_results) \in {0, Len(demo_tool_calls)}
    /\ \A i \in 1..Len(tool_results) :
          demo_tool_calls[i] \notin AGENT_PERMISSIONS[demo_agent] =>
              tool_results[i] = "Security blocked: " \o demo_tool_calls[i]

\* The airline agent was asked for search_hotels and then search_flights:
\* the first was blocked, the second executed.
C25_Witness ==
    /\ demo_agent = "airline"
    /\ demo_tool_calls = <<"search_hotels", "search_flights">>
    /\ demo_executed = <<"search_flights">>
    /\ tool_results[1] = "Security blocked: search_hotels"
    /\ demo_pc = "done"

\* C26: a cancel request to the car-rental agent whose context carries no
\* rental id is answered with success = false and error "missing_rental_id",
\* and no tool call is made for it.
C26_CancelWithoutRentalId ==
    (/\ agent = "car_rental"
     /\ rpc \in {"tool", "responded"}
     /\ Contains(Lower(request.message), "cancel")
     /\ "rental_id" \notin request.context.keys)
    => /\ rpc = "responded"
       /\ ~response.success
       /\ response.error = Some("missing_rental_id")
       /\ response.tools_called = <<>>

\* C27: "List available airports" with an empty context is classified
\* domain airline, intent search; chat routes it to the airline agent, which
\* calls the tool list_airports, and no other, with arguments {} and answers
\* with success.
C27_ListAirportsScenario ==
    /\ ClassifyIntent("List available airports", NoContext)
          = [type |-> "search", domain |-> "airline"]
    /\ (/\ rt_impl = "planner"
        /\ query = "List available airports"
        /\ rt_context \in {NoContext, "no_trip"}
        /\ rt_pc \notin {"idle", "context_wait"})
       => /\ rt_agent = "airline"
          /\ rpc = "tool" =>
                /\ tool[1] = "list_airports"
                /\ AirlineArguments(tool[1]) = {}
          /\ rpc = "responded" =>
                /\ response.success
                /\ response.tools_called = <<"list_airports">>
          /\ (rt_pc = "responded" /\ "success" \in DOMAIN rt_result) =>
                /\ rt_result.tools_called = <<"list_airports">>
                /\ rt_response.success

\* The request went through chat and the airline agent, whose tool call was
\* answered, and chat answered with success.
C27_Witness ==
    /\ rt_impl = "planner"
    /\ query = "List available airports"
    /\ rt_context = NoContext
    /\ rt_pc = "responded"
    /\ "success" \in DOMAIN rt_result
    /\ rt_result.tools_called = <<"list_airports">>
    /\ rt_response.success
    /\ mcp_session_id # NoSession

\* C28: the tool process_request calls is the one of the first rule that
\* matches, and a message no rule matches (it has none of the words the
\* rules test) makes the agent call its default listing tool: list_airports,
\* list_cities or list_locations.
C28_FirstMatchThenDefault ==
    LET m == Lower(request.message)
        d == Dispatch(agent, m, request.context)
        words ==
            CASE agent = "airline" ->
                   {"airport", "search", "flight", "book", "cancel", "booking",
                    "reservation", "detail"}
              [] agent = "hotel" ->
                   {"cit", "search", "find", "hotel", "book", "cancel", "detail", "info"}
              [] agent = "car_rental" ->
                   {"location", "categor", "search", "find", "car", "rent", "book",
                    "reserve", "cancel", "modify", "change", "extend", "detail", "info"}
        default ==
            CASE agent = "airline"    -> "list_airports"
              [] agent = "hotel"      -> "list_cities"
              [] agent = "car_rental" -> "list_locations"
    IN  (rpc # "idle" /\ request # NoRequest) =>
            /\ rpc = "tool" => (d.kind = "tool" /\ tool[1] = d.tool)
            /\ ~AnyWord(m, words) =>
                  \/ rpc = "tool" /\ tool[1] = default
                  \/ rpc = "responded" /\ response.tools_called = <<default>>

\* C29: the tools_called of the response process_request returns names
\* exactly the tool a tools/call was sent for while the request was handled
\* (none when none was sent), and only tools of the agent's own catalog.
C29_ToolsCalledIsWhatWasCalled ==
    [][(rpc # "responded" /\ rpc' = "responded") =>
          LET issued == IF nCall[1] > 0 THEN <<tool[1]>> ELSE <<>> IN
          /\ response'.tools_called = issued
          /\ \A i \in 1..Len(issued) :
                \E k \in 1..Len(AgentTools(agent)) : AgentTools(agent)[k] = issued[i]]_vars

\* The car-rental agent answered a search after its search_vehicles call
\* had returned.
C29_Witness ==
    /\ agent = "car_rental"
    /\ rpc = "responded"
    /\ response.success
    /\ response.tools_called = <<"search_vehicles">>
    /\ hostIssued > 0

\* C30: when the backend has answered a tool's request with an HTTP error
\* status, the tool returns a text (no exception leaves it), the text carries
\* the detail of the backend's answer verbatim when the answer has one, and
\* one request was sent to the backend for the call.
C30_BackendErrorIsReturnedAsText ==
    (host_pc \in {"returned", "raised"} /\ host_response.status_code >= 400) =>
        /\ host_pc = "returned"
        /\ backend_requests = 1
        /\ \A d \in {"Booking not found", "Rental not found",
                     "Invalid date format. Use YYYY-MM-DD",
                     "Vehicle not available for selected dates"} :
              Contains(host_response.content, "\"detail\": \"" \o d \o "\"") =>
                  host_text = ErrorPrefix(host_tool) \o d

\* C31: a response that comes from synthesis (not from an exception) is the
\* fixed "could not help" message of the router when the conversation has no
\* turn, and is otherwise made from the turns: the service returns the result
\* of the last turn and the number of turns, the supervisor returns the text
\* its LLM gives for the prompt that holds the turns.
C31_ZeroTurnsFixedMessage ==
    (rt_pc = "responded" /\ rt_impl \in {"service", "legacy"}
        /\ rt_response.kind \notin {"error", "raised"}) =>
        IF Len(conversation_history) = 0
        THEN /\ rt_response.iterations = 0
             /\ rt_response.result =
                  IF rt_impl = "service" THEN "Unable to process request"
                  ELSE "I wasn't able to complete your request. Please try rephrasing or breaking it down into simpler steps."
        ELSE /\ rt_response.kind = "synthesized"
             /\ rt_response.iterations = Len(conversation_history)
             /\ rt_impl = "service" =>
                   rt_response.result =
                       conversation_history[Len(conversation_history)].result
             /\ rt_impl = "legacy" => rt_response.result \in SynthesisTexts

C31_Witness ==
    /\ rt_pc = "responded"
    /\ rt_impl = "legacy"
    /\ max_iterations > 0
    /\ rt_complete
    /\ conversation_history = <<>>
    /\ rt_response.kind = "unable"

\* C32: classify_intent returns add_to_trip only for a context with an
\* active trip, and a booking message (one with book, reserve or purchase
\* that is add_to_trip when there is an active trip) is create_trip when the
\* context has no active trip.
C32_AddToTripNeedsActiveTrip ==
    \A i \in 1..Len(classified) :
        LET call == classified[i]
            message_lower == Lower(call.message)
        IN  /\ call.intent.type = "add_to_trip" => call.context = "active_trip"
            /\ (/\ call.context # "active_trip"
                /\ AnyWord(message_lower, {"book", "reserve", "purchase"})
                /\ ClassifyIntent(call.message, "active_trip").type = "add_to_trip")
               => call.intent.type = "create_trip"

\* C33: while a request whose message contains "cancel" is handled, the tool
\* process_request calls is never a booking tool (book_flight, book_hotel,
\* book_vehicle), whatever keys the context has.
C33_CancelNeverBooks ==
    (rpc = "tool" /\ Contains(Lower(request.message), "cancel")) =>
        tool[1] \notin {"book_flight", "book_hotel", "book_vehicle"}

\* C34: for every flight, the passengers of its bookings with status
\* confirmed never number more than the flight's total seats, whatever
\* create-booking and cancel requests were handled, each as one step.
C34_NeverOverbooked ==
    \A f \in Flights :
        PassengerSum({i \in 1..Len(bookings) :
                         bookings[i].flight_id = f /\ bookings[i].status = "confirmed"},
                     bookings) <= total_seats(f)

C34_Witness ==
    /\ air_last = AirReply("create", 409, "FL1", 1)
    /\ PassengerSum({i \in 1..Len(bookings) :
                        bookings[i].flight_id = "FL1" /\ bookings[i].status = "confirmed"},
                    bookings) = total_seats("FL1")
    /\ \E i \in 1..Len(bookings) :
          bookings[i].flight_id = "FL1" /\ bookings[i].status = "cancelled"

\* C36: a cancel request answered with success raises the available seats of
\* the booking's flight by the booking's passenger count when the booking was
\* confirmed and leaves them as they were when it was cancelled already; no
\* other flight's seats change; and a create-booking request for a known
\* flight succeeds exactly when it asks for no more seats than are
\* available, so a request refused with 409 succeeds once a cancel has
\* released enough seats.
\* C35: no two rentals of one vehicle that both have status confirmed or
\* active have overlapping periods (each is picked up before the other is
\* dropped off), whatever create-rental and cancel-rental requests were
\* handled, each as one step.
C35_NoOverlappingRentals ==
    \A i, j \in 1..Len(rentals) :
        (/\ i # j
         /\ rentals[i].vehicle_id = rentals[j].vehicle_id
         /\ rentals[i].status \in {"confirmed", "active"}
         /\ rentals[j].status \in {"confirmed", "active"})
        => ~(/\ rentals[i].pickup_date < rentals[j].dropoff_date
             /\ rentals[j].pickup_date < rentals[i].dropoff_date)

C35_Witness ==
    /\ car_last = CarReply("create", 409)
    /\ \E i, j \in 1..Len(rentals) :
          /\ rentals[i].vehicle_id = rentals[j].vehicle_id
          /\ rentals[i].status = "cancelled"
          /\ rentals[j].status = "confirmed"
          /\ rentals[i].pickup_date < rentals[j].dropoff_date
          /\ rentals[j].pickup_date < rentals[i].dropoff_date
    /\ \E i, j \in 1..Len(rentals) :
          /\ rentals[i].vehicle_id = rentals[j].vehicle_id
          /\ rentals[i].status = "confirmed"
          /\ rentals[j].status = "confirmed"
          /\ rentals[i].dropoff_date = rentals[j].pickup_date

C36_CancelReleasesSeatsOnce ==
    [][/\ (air_last'.op = "cancel" /\ air_last'.status_code = 200) =>
            LET released == {i \in 1..Len(bookings) :
                                /\ bookings[i].status = "confirmed"
                                /\ bookings'[i].status = "cancelled"}
            IN  /\ Cardinality(released) <= 1
                /\ \A i \in released :
                      /\ bookings[i].flight_id = air_last'.flight_id
                      /\ bookings[i].passengers = air_last'.passengers
                /\ \A f \in Flights :
                      get_seats_available(bookings', f) =
                          get_seats_available(bookings, f)
                              + PassengerSum({i \in released : bookings[i].flight_id = f},
                                             bookings)
       /\ (air_last'.op = "create" /\ air_last'.flight_id \in Flights) =>
            /\ air_last'.status_code = 200
                   <=> air_last'.passengers
                          <= get_seats_available(bookings, air_last'.flight_id)
            /\ air_last'.status_code = 200 =>
                   get_seats_available(bookings', air_last'.flight_id) =
                       get_seats_available(bookings, air_last'.flight_id)
                           - air_last'.passengers
      ]_vars

C36_Witness ==
    /\ air_last.op = "create"
    /\ air_last.status_code = 200
    /\ air_last.passengers = MaxPassengers
    /\ air_refused.flight_id = air_last.flight_id
    /\ air_refused.passengers = air_last.passengers
    /\ \E i \in 1..Len(bookings) :
          /\ bookings[i].flight_id = air_last.flight_id
          /\ bookings[i].status = "cancelled"
          /\ bookings[i].passengers > 0

\* C37: when the tool calls of an LLM answer are executed, a call the PDP
\* permits is blocked exactly when it is later than the agent id's 21st
\* permitted call, and a blocked call is not executed; the agent id's count
\* rises by the number of permitted calls only, the counts of the other
\* agent ids stay, and no count ever falls, so a blocked agent id stays
\* blocked.
C37_FirstTwentyOnePass ==
    [][/\ \A b \in DemoAgents : call_counts'[b] >= call_counts[b]
       /\ (demo_pc = "llm_wait" /\ demo_pc' # "llm_wait") =>
            LET calls == demo_tool_calls'
                Permitted(i) == calls[i] \in AGENT_PERMISSIONS[demo_agent]
                Attempt(i) == call_counts[demo_agent]
                                 + Cardinality({j \in 1..i : Permitted(j)})
            IN  /\ Len(tool_results') = Len(calls)
                /\ \A i \in 1..Len(calls) :
                      Permitted(i) =>
                          ((tool_results'[i] = "Security blocked: " \o calls[i])
                               <=> Attempt(i) > 21)
                /\ Len(demo_executed') =
                       Cardinality({i \in 1..Len(calls) :
                                       /\ Permitted(i)
                                       /\ Attempt(i) <= 21
                                       /\ calls[i] \in DemoTools})
                /\ call_counts'[demo_agent] =
                       call_counts[demo_agent]
                           + Cardinality({j \in 1..Len(calls) : Permitted(j)})
                /\ \A b \in DemoAgents \ {demo_agent} :
                      call_counts'[b] = call_counts[b]
      ]_vars

\* The airline agent's 21st permitted call passed and its 22nd was blocked,
\* while the supervisor has calls left.
C37_Witness ==
    /\ demo_agent = "airline"
    /\ call_counts["airline"] = 22
    /\ call_counts["supervisor"] < 21
    /\ demo_tool_calls = <<"search_flights", "search_flights">>
    /\ tool_results = <<"Found 3 with search_flights",
                        "Security blocked: search_flights">>
    /\ demo_executed = <<"search_flights">>

=========================================================================
